---------------------------- MODULE Spec2Model ----------------------------
(***************************************************************************)
(* Jewelry Photo Enhancer (src/index.tsx): the session state of the App    *)
(* component, the retry harness enhanceImageWithRetry, the batch scheduler *)
(* runEnhancement and the handlers that start and disturb a run.           *)
(*                                                                         *)
(* Every await of the source is a suspension point and hence the end of an *)
(* action; what runs between two awaits (including the chain of promise    *)
(* continuations a settlement triggers) is one atomic step.                *)
(***************************************************************************)
EXTENDS Integers, Sequences, FiniteSets, TLC

VARIABLES
    imagePairs,             \* useState<ImagePair[]>            (line 43)
    likedImages,            \* useState<ImagePair[]>            (line 45)
    enhancingMode,          \* 'auto' | 'custom' | null         (line 46)
    progress,               \* {completed, total}               (line 47)
    isCustomModalOpen,      \* line 49
    customSettings,         \* line 51 (angles, outputFormat)
    showClearConfirmModal,  \* line 52
    uploads,                \* number of files accepted so far (stamps the ids)
    runs,                   \* the calls of runEnhancement in flight, in start order
    started,                \* number of calls of runEnhancement so far
    returned,               \* the call that returned last, as it was on return
    toastMessage,           \* line 53 ("" when no toast is shown)
    storage,                \* localStorage item 'likedJewelryImages'
    boot,                   \* the mount of App and its first effects (lines 62-77)
    isDownloading,          \* line 54
    isDownloadingLiked,     \* line 55
    zips,                   \* the archives whose generateAsync is awaited
    downloads,              \* the archives handed to the browser so far
    isCameraOpen,           \* line 48
    streamRef,              \* line 58, the stream kept for closeCamera
    cameraCall,             \* the call of openCamera
    ornamentCall            \* the call of getOrnamentType

vars == <<imagePairs, likedImages, enhancingMode, progress, isCustomModalOpen,
          customSettings, showClearConfirmModal, uploads, runs, started, returned,
          toastMessage, storage, boot, isDownloading, isDownloadingLiked, zips,
          downloads, isCameraOpen, streamRef, cameraCall, ornamentCall>>

\* what the handlers of the session neither read nor write
restVars == <<boot, isDownloading, isDownloadingLiked, zips, downloads, cameraCall,
              ornamentCall>>

-----------------------------------------------------------------------------
(* Bounds of the model *)

MaxUploads == 2        \* files accepted in one behaviour of Spec
MaxRuns == 3           \* runs started in one behaviour
MaxFailures == 4       \* failing answers to the runs in flight at one time
MaxJobs == 7           \* originals present at the start of SpecBatch
MaxDownloads == 2      \* archives asked for in one behaviour

(* Program constants *)

BATCH_SIZE == 5
MAX_RETRIES == 3
INITIAL_RETRY_DELAY_MS == 1000

-----------------------------------------------------------------------------
(* Optional values: null is the empty tuple, a present value v is <<v>>. *)

Null == <<>>
Some(v) == <<v>>

Min(a, b) == IF a < b THEN a ELSE b

RECURSIVE Pow2(_)
Pow2(n) == IF n = 0 THEN 1 ELSE 2 * Pow2(n - 1)

-----------------------------------------------------------------------------
(* Strings that the code inspects are sequences of characters.  A literal  *)
(* of the program that is only ever copied is written as a single token.   *)

Str429 == <<"4", "2", "9">>
StrQuota == <<"q", "u", "o", "t", "a">>
StrRateLimit == <<"r", "a", "t", "e", " ", "l", "i", "m", "i", "t">>

RATE_LIMIT_MESSAGE == <<"Rate limit exceeded. Please try again later.">>
UNKNOWN_ERROR_MESSAGE == <<"An unknown error occurred.">>
NO_IMAGE_MESSAGE == <<"AI did not return an image.">>
NO_CONTEXT_MESSAGE == <<"Could not get canvas context">>
LOAD_FAILED_MESSAGE == <<"Failed to load image for format conversion.">>

\* String.prototype.toLowerCase, on the letters the model's messages use
toLowerCaseChar(c) ==
    CASE c = "A" -> "a" [] c = "E" -> "e" [] c = "I" -> "i" [] c = "L" -> "l"
      [] c = "M" -> "m" [] c = "O" -> "o" [] c = "Q" -> "q" [] c = "R" -> "r"
      [] c = "T" -> "t" [] c = "U" -> "u" [] OTHER -> c

toLowerCase(s) == [k \in 1..Len(s) |-> toLowerCaseChar(s[k])]

\* String.prototype.includes
includes(s, needle) ==
    \E k \in 1..(Len(s) - Len(needle) + 1) :
        SubSeq(s, k, k + Len(needle) - 1) = needle


-----------------------------------------------------------------------------
(* ImagePair (lines 6-17).  An id is the upload's stamp plus the result    *)
(* suffix: `${file.name}-${Date.now()}-${index}` for an original (res = "") *)
(* and `${sourcePair.id}-res-${angle}` for a derived record.  The display  *)
(* labels title / enhancedTitle are left out.                              *)

OriginalId(n) == [src |-> n, res |-> ""]
DerivedId(sourceId, suffix) == [src |-> sourceId.src, res |-> suffix]

\* the record handleFileChange builds for an accepted file (lines 180-190)
OriginalPair(n) ==
    [id |-> OriginalId(n), sourceId |-> OriginalId(n), originalFile |-> n,
     enhanced |-> Null, isLoading |-> FALSE, error |-> Null, isSelected |-> FALSE]

\* a placeholder that is not marked as loading
PlaceholderNotLoading(sourcePair, suffix) ==
    [sourcePair EXCEPT !.id = DerivedId(sourcePair.id, suffix),
                       !.sourceId = sourcePair.id,
                       !.enhanced = Null, !.error = Null, !.isSelected = FALSE]

\* a placeholder that takes a generated view in the place of the upload
PlaceholderChained(sourcePair, suffix) ==
    [sourcePair EXCEPT !.id = DerivedId(sourcePair.id, suffix),
                       !.sourceId = sourcePair.id,
                       !.originalFile = IF suffix \in {"auto", "front"} THEN @ ELSE 0,
                       !.isLoading = TRUE, !.enhanced = Null,
                       !.error = Null, !.isSelected = FALSE]

\* the placeholder both enhance handlers build (lines 335-344, 437-446)
LoadingPair(sourcePair, suffix) ==
    [sourcePair EXCEPT !.id = DerivedId(sourcePair.id, suffix),
                       !.sourceId = sourcePair.id,
                       !.isLoading = TRUE, !.enhanced = Null,
                       !.error = Null, !.isSelected = FALSE]

Range(s) == {s[k] : k \in 1..Len(s)}

\* lines 299-300, 366-367, 766-767
sourceIdsWithResults(pairs) ==
    {p.sourceId : p \in {q \in Range(pairs) : q.id # q.sourceId}}

\* an eligibility that looks at the record alone
IsOriginal(pairs, p) == p.id = p.sourceId

\* an eligibility that also remembers the jobs of the runs in flight
IsEligibleUnlessInFlight(pairs, p) ==
    /\ p.id = p.sourceId
    /\ p.id \notin sourceIdsWithResults(pairs)
    /\ \A r \in 1..Len(runs) : \A j \in 1..Len(runs[r].jobs) :
          runs[r].jobs[j].pair.sourceId # p.id

IsEligible(pairs, p) ==
    p.id = p.sourceId /\ p.id \notin sourceIdsWithResults(pairs)

sourcePairsToProcess(pairs) == SelectSeq(pairs, LAMBDA p : IsEligible(pairs, p))

unenhancedCount == Len(sourcePairsToProcess(imagePairs))

\* the status the rendering derives from a record (lines 1023-1029)
Status(p) ==
    IF p.isLoading THEN "loading"
    ELSE IF p.enhanced # Null THEN "succeeded"
    ELSE IF p.error # Null THEN "failed"
    ELSE "pending"

-----------------------------------------------------------------------------
(* enhanceImageWithRetry (lines 209-266) as a state machine over one job.  *)
(*   phase    where the call is suspended: "pending" (not called yet),     *)
(*            "encode" (await fileToBase64), "request" (await              *)
(*            generateContent), "convert" (await convertImageFormat),      *)
(*            "wait" (await setTimeout), "done" (returned)                 *)
(*   attempt  the loop variable                                            *)
(*   url      enhancedUrl while the conversion is awaited                  *)
(*   result   the returned ImagePair                                       *)
(* requests, waits and hist record what the call has done so far: the      *)
(* number of generateContent calls, the delays handed to setTimeout and    *)
(* the outcome of each attempt.                                            *)

NewJob ==
    [phase |-> "pending", attempt |-> 0, requests |-> 0, waits |-> <<>>,
     hist |-> <<>>, url |-> Null, result |-> Null]

\* the call runs synchronously up to its first await (line 220)
LaunchJob(job) == [job EXCEPT !.phase = "encode", !.attempt = 1]

\* a thrown value: an Error with its message, or a value that is no Error
\* (fileToBase64 rejects with the FileReader's ProgressEvent, line 95)
ErrorOf(msg) == [isError |-> TRUE, message |-> msg]
NonError == [isError |-> FALSE, message |-> <<>>]

\* a classification that compares quota and rate limit in the case given
ClassifyErrorCaseSensitive(err) ==
    IF err.isError
    THEN IF \/ includes(err.message, Str429)
            \/ includes(err.message, StrQuota)
            \/ includes(err.message, StrRateLimit)
         THEN RATE_LIMIT_MESSAGE
         ELSE err.message
    ELSE UNKNOWN_ERROR_MESSAGE

\* a classification that drops the text of the error
ClassifyErrorNoRawText(err) ==
    IF /\ err.isError
       /\ \/ includes(err.message, Str429)
          \/ includes(toLowerCase(err.message), StrQuota)
          \/ includes(toLowerCase(err.message), StrRateLimit)
    THEN RATE_LIMIT_MESSAGE
    ELSE UNKNOWN_ERROR_MESSAGE

\* lines 249-256
ClassifyError(err) ==
    IF err.isError
    THEN IF \/ includes(err.message, Str429)
            \/ includes(toLowerCase(err.message), StrQuota)
            \/ includes(toLowerCase(err.message), StrRateLimit)
         THEN RATE_LIMIT_MESSAGE
         ELSE err.message
    ELSE UNKNOWN_ERROR_MESSAGE

\* a delay doubled once too often
BackoffDelayOffByOne(attempt) == INITIAL_RETRY_DELAY_MS * Pow2(attempt)

\* a delay that does not grow
BackoffDelayConstant(attempt) == INITIAL_RETRY_DELAY_MS

\* line 260
BackoffDelay(attempt) == INITIAL_RETRY_DELAY_MS * Pow2(attempt - 1)

Outcome(kind, err) == [kind |-> kind, isError |-> err.isError, message |-> err.message]

\* a failed record that stays marked as loading
CatchErrorStillLoading(job, pair, kind, err) ==
    IF job.attempt = MAX_RETRIES
    THEN [job EXCEPT !.phase = "done", !.url = Null,
                     !.hist = Append(@, Outcome(kind, err)),
                     !.result = Some([pair EXCEPT !.error = Some(UNKNOWN_ERROR_MESSAGE)])]
    ELSE [job EXCEPT !.phase = "wait", !.url = Null,
                     !.hist = Append(@, Outcome(kind, err)),
                     !.waits = Append(@, INITIAL_RETRY_DELAY_MS)]

\* the catch block (lines 246-261)
CatchError(job, pair, kind, err) ==
    IF job.attempt = MAX_RETRIES
    THEN [job EXCEPT !.phase = "done", !.url = Null,
                     !.hist = Append(@, Outcome(kind, err)),
                     !.result = Some([pair EXCEPT !.isLoading = FALSE,
                                                  !.error = Some(ClassifyError(err))])]
    ELSE [job EXCEPT !.phase = "wait", !.url = Null,
                     !.hist = Append(@, Outcome(kind, err)),
                     !.waits = Append(@, BackoffDelay(job.attempt))]

\* a success that leaves the selection flag of the placeholder
ReturnSuccessUnselected(job, pair, finalUrl) ==
    [job EXCEPT !.phase = "done", !.url = Null,
                !.hist = Append(@, Outcome("image", NonError)),
                !.result = Some([pair EXCEPT !.enhanced = Some(finalUrl),
                                             !.isLoading = FALSE])]

\* line 242
ReturnSuccess(job, pair, finalUrl) ==
    [job EXCEPT !.phase = "done", !.url = Null,
                !.hist = Append(@, Outcome("image", NonError)),
                !.result = Some([pair EXCEPT !.enhanced = Some(finalUrl),
                                             !.isLoading = FALSE,
                                             !.isSelected = TRUE])]

\* a data URL: the image generated from a file, and its mime type (line 231)
DataUrl(file, mime) == [of |-> file, mime |-> mime]

\* fileToBase64 settles (line 220): the request is issued, or the rejection is caught
AfterEncode(job, pair, ok) ==
    IF ok
    THEN [job EXCEPT !.phase = "request", !.requests = @ + 1]
    ELSE CatchError(job, pair, "encodeFail", NonError)

\* a response without an image ends the job at once
AfterResponseNoImageTerminal(job, pair, outputFormat, resp) ==
    CASE resp.kind = "reject" -> CatchError(job, pair, "reject", ErrorOf(resp.message))
      [] resp.kind = "noImage" ->
            [job EXCEPT !.phase = "done",
                        !.hist = Append(@, Outcome("noImage", ErrorOf(NO_IMAGE_MESSAGE))),
                        !.result = Some([pair EXCEPT !.isLoading = FALSE,
                                                     !.error = Some(NO_IMAGE_MESSAGE)])]
      [] resp.kind = "image" ->
            IF outputFormat # "undefined"
            THEN [job EXCEPT !.phase = "convert",
                             !.url = Some(DataUrl(pair.originalFile, resp.mime))]
            ELSE ReturnSuccess(job, pair, DataUrl(pair.originalFile, resp.mime))

\* generateContent settles (lines 221-245).  resp.kind is "reject" (the call
\* throws an Error with resp.message), "noImage" (no part carries inlineData)
\* or "image" (a part carries inlineData of type resp.mime).
AfterResponse(job, pair, outputFormat, resp) ==
    CASE resp.kind = "reject" -> CatchError(job, pair, "reject", ErrorOf(resp.message))
      [] resp.kind = "noImage" -> CatchError(job, pair, "noImage", ErrorOf(NO_IMAGE_MESSAGE))
      [] resp.kind = "image" ->
            IF outputFormat # "undefined"
            THEN [job EXCEPT !.phase = "convert",
                             !.url = Some(DataUrl(pair.originalFile, resp.mime))]
            ELSE ReturnSuccess(job, pair, DataUrl(pair.originalFile, resp.mime))

\* a conversion whose failure falls back to the image as the endpoint sent it
AfterConvertFallback(job, pair, outputFormat, conv) ==
    IF conv.ok
    THEN ReturnSuccess(job, pair, DataUrl(job.url[1].of, outputFormat))
    ELSE [job EXCEPT !.phase = "done", !.url = Null,
                     !.hist = Append(@, Outcome("convertFail", ErrorOf(conv.message))),
                     !.result = Some([pair EXCEPT !.enhanced = job.url,
                                                  !.isLoading = FALSE,
                                                  !.isSelected = TRUE])]

\* convertImageFormat settles (lines 99-120, 240): conv.ok, or an Error with conv.message
AfterConvert(job, pair, outputFormat, conv) ==
    IF conv.ok
    THEN ReturnSuccess(job, pair, DataUrl(job.url[1].of, outputFormat))
    ELSE CatchError(job, pair, "convertFail", ErrorOf(conv.message))

\* a timer whose firing does not resume the loop
AfterBackoffStuck(job) == job

\* the backoff timer fires (line 260): next iteration of the loop
AfterBackoff(job) == [job EXCEPT !.phase = "encode", !.attempt = @ + 1]

-----------------------------------------------------------------------------
(* runEnhancement (lines 268-296).  A run record is one call:               *)
(*   mode, outputFormat, jobs   what the handler passed                     *)
(*   js                 the state of enhanceImageWithRetry for each job     *)
(*   i                  the loop variable (0-based start of the batch)      *)
(*   allResolvedPairs   line 275                                            *)
(*   finished           the call has returned and its handler has resumed   *)
(*                      (it then leaves runs and is kept in returned)       *)
(* calls and batches record what the call has done: the number of           *)
(* onProgress invocations and the sizes of the batches launched.            *)

\* a slice that takes every remaining job
SliceEndAll(i, n) == n

\* jobs.slice(i, i + BATCH_SIZE), as the positions it takes (line 278)
SliceEnd(i, n) == Min(i + BATCH_SIZE, n)

batchJobs(run) == (run.i + 1)..SliceEnd(run.i, Len(run.jobs))

\* lines 280-282: every job of the batch is called, each up to its first await
StartBatch(run) ==
    [run EXCEPT !.js = [k \in 1..Len(run.js) |->
                           IF k \in batchJobs(run) THEN LaunchJob(run.js[k])
                                                   ELSE run.js[k]],
                !.batches = Append(@, Cardinality(batchJobs(run)))]

\* Promise.all resolves when every promise of the batch has (line 284)
BatchSettled(run) == \A k \in batchJobs(run) : run.js[k].phase = "done"

\* only the results that carry no error
resolvedWithoutError(run) ==
    SelectSeq([k \in 1..Cardinality(batchJobs(run)) |-> run.js[run.i + k].result[1]],
              LAMBDA p : p.error = Null)

\* Promise.all's value: the results in the order of the batch (line 284)
resolvedPairsInBatch(run) ==
    [k \in 1..Cardinality(batchJobs(run)) |-> run.js[run.i + k].result[1]]

\* one onProgress call per batch
ProgressOncePerBatch(run) == 1

\* line 288: one onProgress call per element
ProgressCalls(run) == Len(resolvedPairsInBatch(run))

\* a scheduler that does not leave its loop after the last batch
AfterBatchNoReturn(run) ==
    [run EXCEPT !.allResolvedPairs = @ \o resolvedPairsInBatch(run),
                !.calls = @ + ProgressCalls(run),
                !.i = @ + BATCH_SIZE]

\* lines 286-289 and the loop's next test (line 277)
AfterBatch(run) ==
    LET run1 == [run EXCEPT !.allResolvedPairs = @ \o resolvedPairsInBatch(run),
                            !.calls = @ + ProgressCalls(run),
                            !.i = @ + BATCH_SIZE]
    IN  IF run1.i < Len(run1.jobs) THEN StartBatch(run1)
                                   ELSE [run1 EXCEPT !.finished = TRUE]

\* a merge that also appends the results whose record is no longer there
MergeResolvedUpsert(currentPairs, resolved) ==
    LET replaced == [k \in 1..Len(currentPairs) |->
                        LET hits == {m \in 1..Len(resolved) :
                                        resolved[m].id = currentPairs[k].id}
                        IN  IF hits = {} THEN currentPairs[k]
                            ELSE resolved[CHOOSE m \in hits : \A m2 \in hits : m2 <= m]]
    IN  replaced \o SelectSeq(resolved,
                              LAMBDA q : \A k \in 1..Len(currentPairs) :
                                            currentPairs[k].id # q.id)

\* lines 292-295: resolvedMap.get(p.id) || p  (a later entry of a Map wins)
MergeResolved(currentPairs, resolved) ==
    [k \in 1..Len(currentPairs) |->
        LET hits == {m \in 1..Len(resolved) : resolved[m].id = currentPairs[k].id}
        IN  IF hits = {} THEN currentPairs[k]
            ELSE resolved[CHOOSE m \in hits : \A m2 \in hits : m2 <= m]]

\* the call of runEnhancement by a handler (lines 356, 466): up to the first await
StartRun(mode, outputFormat, jobs) ==
    StartBatch([mode |-> mode, outputFormat |-> outputFormat, jobs |-> jobs,
                js |-> [k \in 1..Len(jobs) |-> NewJob], i |-> 0,
                allResolvedPairs |-> <<>>, calls |-> 0, batches |-> <<>>,
                finished |-> FALSE])

InFlight(run) == {k \in 1..Len(run.jobs) : run.js[k].phase \notin {"pending", "done"}}

-----------------------------------------------------------------------------
(* Job j of run r resumes and reaches the state job1.  If that settles the  *)
(* batch, the continuations run in the same turn of the event loop: the     *)
(* progress callbacks (lines 357, 467), then either the next batch or the   *)
(* merge (292-295) and the handler's tail (lines 360-361, 470-471).         *)

\* a run that merges the results of each batch as soon as it has settled
ResumeMergingEachBatch(r, j, job1) ==
    LET run1 == [runs[r] EXCEPT !.js[j] = job1]
    IN  IF job1.phase = "done" /\ BatchSettled(run1)
        THEN LET run2 == AfterBatch(run1)
                 counted == [progress EXCEPT
                                !.completed = @ + (run2.calls - run1.calls)]
             IN  /\ imagePairs' = MergeResolved(imagePairs, run2.allResolvedPairs)
                 /\ IF run2.finished
                    THEN /\ enhancingMode' = "null"
                         /\ progress' = [completed |-> 0, total |-> 0]
                         /\ runs' = [k \in 1..(Len(runs) - 1) |->
                                        IF k < r THEN runs[k] ELSE runs[k + 1]]
                         /\ returned' = Some(run2)
                    ELSE /\ progress' = counted
                         /\ runs' = [runs EXCEPT ![r] = run2]
                         /\ UNCHANGED <<enhancingMode, returned>>
        ELSE /\ runs' = [runs EXCEPT ![r] = run1]
             /\ UNCHANGED <<imagePairs, enhancingMode, progress, returned>>

Resume(r, j, job1) ==
    LET run1 == [runs[r] EXCEPT !.js[j] = job1]
    IN  IF job1.phase = "done" /\ BatchSettled(run1)
        THEN LET run2 == AfterBatch(run1)
                 counted == [progress EXCEPT
                                !.completed = @ + (run2.calls - run1.calls)]
             IN  IF run2.finished
                 THEN /\ imagePairs' = MergeResolved(imagePairs, run2.allResolvedPairs)
                      /\ enhancingMode' = "null"
                      /\ progress' = [completed |-> 0, total |-> 0]
                      /\ runs' = [k \in 1..(Len(runs) - 1) |->
                                     IF k < r THEN runs[k] ELSE runs[k + 1]]
                      /\ returned' = Some(run2)
                 ELSE /\ progress' = counted
                      /\ runs' = [runs EXCEPT ![r] = run2]
                      /\ UNCHANGED <<imagePairs, enhancingMode, returned>>
        ELSE /\ runs' = [runs EXCEPT ![r] = run1]
             /\ UNCHANGED <<imagePairs, enhancingMode, progress, returned>>

RECURSIVE SumOver(_, _)
SumOver(f, n) == IF n = 0 THEN 0 ELSE f[n] + SumOver(f, n - 1)

\* the failed attempts recorded by the runs in flight
FailuresInFlight ==
    SumOver([r \in 1..Len(runs) |->
                SumOver([j \in 1..Len(runs[r].js) |->
                            Cardinality({k \in 1..Len(runs[r].js[j].hist) :
                                            runs[r].js[j].hist[k].kind # "image"})],
                        Len(runs[r].js))],
            Len(runs))

MayFail == FailuresInFlight < MaxFailures

Suspended(r, j, phase) ==
    /\ r \in 1..Len(runs)
    /\ j \in 1..Len(runs[r].jobs)
    /\ runs[r].js[j].phase = phase

UnchangedByJob ==
    UNCHANGED <<likedImages, isCustomModalOpen, customSettings,
                showClearConfirmModal, uploads, started, toastMessage, storage,
                isCameraOpen, streamRef, restVars>>

fileToBase64Settles(r, j, ok) ==
    /\ Suspended(r, j, "encode")
    /\ ok \/ MayFail
    /\ Resume(r, j, AfterEncode(runs[r].js[j], runs[r].jobs[j].pair, ok))
    /\ UnchangedByJob

generateContentSettles(r, j, resp) ==
    /\ Suspended(r, j, "request")
    /\ resp.kind = "image" \/ MayFail
    /\ Resume(r, j, AfterResponse(runs[r].js[j], runs[r].jobs[j].pair,
                                  runs[r].outputFormat, resp))
    /\ UnchangedByJob

convertImageFormatSettles(r, j, conv) ==
    /\ Suspended(r, j, "convert")
    /\ conv.ok \/ MayFail
    /\ Resume(r, j, AfterConvert(runs[r].js[j], runs[r].jobs[j].pair,
                                 runs[r].outputFormat, conv))
    /\ UnchangedByJob

backoffElapses(r, j) ==
    /\ Suspended(r, j, "wait")
    /\ Resume(r, j, AfterBackoff(runs[r].js[j]))
    /\ UnchangedByJob

-----------------------------------------------------------------------------
(* CustomSettings (lines 19-40) *)

allAngleKeys == <<"front", "side", "top", "threeQuarter", "closeUp", "back">>

defaultCustomSettings ==
    [angles |-> {"front"}, background |-> "velvet", lighting |-> "soft",
     material |-> "auto", outputFormat |-> "jpeg"]

\* the angle checkboxes and output formats the user operates in the model
ModelAngles == {"front", "side"}
ModelFormats == {"jpeg", "png", "webp"}

\* allAngleKeys.filter(angle => customSettings.angles[angle]) (line 421)
anglesToGenerate(settings) == SelectSeq(allAngleKeys, LAMBDA a : a \in settings.angles)

(* A prompt is the sequence of the sentences of its text.  A sentence is    *)
(* named by what it instructs; arg is the value the template puts into it   *)
(* (the material, the surface, the light, the camera angle).                *)
Clause(kind, arg) == [kind |-> kind, arg |-> arg]

\* a base task that asks to preserve the material whatever is chosen
baseTaskAlwaysPreserve(material) ==
    <<Clause("enhanceForEcommerce", ""), Clause("preserveMaterialAsSeen", "")>>

\* baseTask (lines 371-376)
baseTask(material) ==
    IF material = "auto"
    THEN <<Clause("enhanceForEcommerce", ""), Clause("preserveMaterialAsSeen", "")>>
    ELSE <<Clause("transformMaterialTo", material),
           Clause("preserveStructureButChangeMaterial", ""),
           Clause("renderNewMaterial", material)>>

\* backgroundInstruction (lines 378-385)
backgroundInstruction(background) ==
    CASE background = "marble" -> Clause("placeOn", "white or black marble surface")
      [] background = "abstract" -> Clause("placeOn", "abstract out-of-focus background")
      [] background = "whiteStudio" -> Clause("placeOn", "pure white studio background")
      [] background = "gradient" -> Clause("placeOn", "color gradient background")
      [] OTHER -> Clause("placeOn", "dark velvet cloth")

\* lightingInstruction (lines 387-394)
lightingInstruction(lighting) ==
    CASE lighting = "dramatic" -> Clause("light", "dramatic, high contrast")
      [] lighting = "natural" -> Clause("light", "natural daylight")
      [] lighting = "highKey" -> Clause("light", "high-key, shadowless")
      [] lighting = "shadowed" -> Clause("light", "directed, long shadows")
      [] OTHER -> Clause("light", "soft, luxurious")

\* stylePrompt (lines 396-405)
stylePrompt(settings) ==
    <<Clause("removeOriginalBackground", "")>>
        \o baseTask(settings.material)
        \o <<backgroundInstruction(settings.background),
             lightingInstruction(settings.lighting),
             Clause("studioQuality", "")>>

\* anglePrompts (lines 410-416)
anglePrompts(angle) ==
    CASE angle = "side" ->
            <<Clause("rerenderFrom", "side-view"), Clause("preserveAsInOriginal", ""),
              Clause("doNotInvent", "complex details or markings"),
              Clause("sameObject", "change in perspective")>>
      [] angle = "top" ->
            <<Clause("rerenderFrom", "top-down"), Clause("preserveAsInOriginal", ""),
              Clause("doNotInvent", "complex details or markings"),
              Clause("sameObject", "change in perspective")>>
      [] angle = "threeQuarter" ->
            <<Clause("rerenderFrom", "three-quarter"), Clause("preserveAsInOriginal", ""),
              Clause("doNotInvent", "complex details or markings"),
              Clause("sameObject", "change in perspective")>>
      [] angle = "closeUp" ->
            <<Clause("closeUpOf", "key area of craftsmanship"),
              Clause("preserveAsInOriginal", ""),
              Clause("doNotInvent", "shape changes or details"),
              Clause("sameObject", "zoomed-in view")>>
      [] angle = "back" ->
            <<Clause("rerenderFrom", "back-view"), Clause("preserveAsInOriginal", ""),
              Clause("inferBackSimply", ""),
              Clause("doNotInvent", "complex details or markings"),
              Clause("sameObject", "change in perspective")>>

\* a prompt that is the style prompt for every angle
finalPromptStyleOnly(settings, angle) == stylePrompt(settings)

\* finalPrompt (lines 428-434)
finalPrompt(settings, angle) ==
    IF angle = "front"
    THEN stylePrompt(settings)
    ELSE <<Clause("basedOnProvidedImage", "")>>
            \o anglePrompts(angle)
            \o <<Clause("thenEnhanceWithStyle", "")>>
            \o stylePrompt(settings)

\* basePrompt of the Auto run (lines 316-329)
basePrompt ==
    <<Clause("removeOriginalBackground", ""),
      Clause("placeOn", "velvet cloth or marble surface"),
      Clause("light", "soft, diffused"),
      Clause("addShadowsAndReflections", ""),
      Clause("studioQuality", "")>>

\* a Custom run that builds the front view alone, whatever is selected
CustomJobsFrontOnly(sourcePairs, settings) ==
    [k \in 1..Len(sourcePairs) |->
        [pair |-> LoadingPair(sourcePairs[k], "front"),
         prompt |-> finalPrompt(settings, "front"), angle |-> "front"]]

\* lines 420-450: for each source pair, for each selected angle, one job
CustomJobs(sourcePairs, settings) ==
    LET angles == anglesToGenerate(settings)
        m == Len(angles)
    IN  [k \in 1..(Len(sourcePairs) * m) |->
            LET s == ((k - 1) \div m) + 1
                a == ((k - 1) % m) + 1
            IN  [pair |-> LoadingPair(sourcePairs[s], angles[a]),
                 prompt |-> finalPrompt(settings, angles[a]), angle |-> angles[a]]]

\* lines 334-347: one job per source pair
AutoJobs(sourcePairs) ==
    [k \in 1..Len(sourcePairs) |->
        [pair |-> LoadingPair(sourcePairs[k], "auto"), prompt |-> basePrompt,
         angle |-> "auto"]]

newResultPairs(jobs) == [k \in 1..Len(jobs) |-> jobs[k].pair]

-----------------------------------------------------------------------------
(* Local persistence (lines 62-77).  The item of localStorage is absent     *)
(* (Null) or holds a text: the JSON of an array of records, or a text that  *)
(* JSON.parse rejects.                                                      *)

\* what JSON.stringify makes of a File: it has no enumerable own property
EmptyObject == 0

stringifyPair(p) == [p EXCEPT !.originalFile = EmptyObject]

\* JSON.stringify(likedImages) (line 76)
stringify(pairs) ==
    [parses |-> TRUE, value |-> [k \in 1..Len(pairs) |-> stringifyPair(pairs[k])]]

\* a text that is no JSON
Unparsable == [parses |-> FALSE, value |-> <<>>]

\* the save effect (lines 75-77), run after a render that changed likedImages
saved(pairs) == Some(stringify(pairs))

-----------------------------------------------------------------------------
(* The parts of the state beside the session, as they are once App has      *)
(* mounted on a device that holds no liked images: the effects of lines     *)
(* 62-77 have read the item once and written the empty set.                 *)

NoZips == [session |-> Null, liked |-> Null]
NoCameraCall == [phase |-> "idle", requested |-> <<>>, errors |-> <<>>, lastError |-> Null]
NoOrnamentCall ==
    [phase |-> "idle", attempt |-> 0, requests |-> 0, waits |-> <<>>, hist |-> <<>>,
     answer |-> Null, result |-> Null]

AppAtRest ==
    /\ toastMessage = ""
    /\ storage = saved(<<>>)
    /\ boot = [phase |-> "ready", queued |-> Null, reads |-> 1, logged |-> FALSE]
    /\ isDownloading = FALSE
    /\ isDownloadingLiked = FALSE
    /\ zips = NoZips
    /\ downloads = <<>>
    /\ isCameraOpen = FALSE
    /\ streamRef = Null
    /\ cameraCall = NoCameraCall
    /\ ornamentCall = NoOrnamentCall

-----------------------------------------------------------------------------
(* The handlers *)

\* closeCamera (lines 586-591) stops the tracks of the stream it kept, if any
stopTracks(ref) == IF ref = Null THEN Null ELSE Some([ref[1] EXCEPT !.live = FALSE])

\* The confirmation dialog (aria-modal, line 786) and the custom modal (an
\* overlay that takes every click outside its content, line 809) cover the
\* page: while one is shown the controls of the page cannot be clicked.
PageActive == ~showClearConfirmModal /\ ~isCustomModalOpen

\* handleFileChange (lines 164-207), one accepted image file
handleFileChange ==
    /\ PageActive
    /\ uploads < MaxUploads
    /\ uploads' = uploads + 1
    /\ imagePairs' = Append(imagePairs, OriginalPair(uploads + 1))
    /\ toastMessage' = "1 image(s) added."
    /\ UNCHANGED <<likedImages, enhancingMode, progress, isCustomModalOpen,
                   customSettings, showClearConfirmModal, runs, started, returned,
                   storage, isCameraOpen, streamRef, restVars>>

\* handleAutoEnhance (lines 298-362), up to the await of line 356
handleAutoEnhance ==
    LET sourcePairs == sourcePairsToProcess(imagePairs)
        jobs == AutoJobs(sourcePairs)
    IN  /\ PageActive
        /\ started < MaxRuns
        /\ ~(Len(sourcePairs) = 0 \/ enhancingMode # "null")
        /\ enhancingMode' = "auto"
        /\ progress' = [completed |-> 0, total |-> Len(sourcePairs)]
        /\ imagePairs' = imagePairs \o newResultPairs(jobs)
        /\ runs' = Append(runs, StartRun("auto", "undefined", jobs))
        /\ started' = started + 1
        /\ UNCHANGED <<likedImages, isCustomModalOpen, customSettings,
                       showClearConfirmModal, uploads, returned,
                   toastMessage, storage, isCameraOpen, streamRef, restVars>>

\* the Custom Enhance button (line 912)
openCustomModal ==
    /\ PageActive
    /\ ~(unenhancedCount = 0 \/ enhancingMode # "null")
    /\ ~isCustomModalOpen
    /\ isCustomModalOpen' = TRUE
    /\ UNCHANGED <<imagePairs, likedImages, enhancingMode, progress,
                   customSettings, showClearConfirmModal, uploads, runs, started, returned,
                   toastMessage, storage, isCameraOpen, streamRef, restVars>>

\* Cancel, or a click on the overlay (lines 809, 892)
closeCustomModal ==
    /\ isCustomModalOpen
    /\ isCustomModalOpen' = FALSE
    /\ UNCHANGED <<imagePairs, likedImages, enhancingMode, progress,
                   customSettings, showClearConfirmModal, uploads, runs, started, returned,
                   toastMessage, storage, isCameraOpen, streamRef, restVars>>

\* an angle checkbox of the modal (lines 838-858)
toggleAngle(a) ==
    /\ isCustomModalOpen
    /\ customSettings' =
          [customSettings EXCEPT !.angles = IF a \in @ THEN @ \ {a} ELSE @ \cup {a}]
    /\ UNCHANGED <<imagePairs, likedImages, enhancingMode, progress,
                   isCustomModalOpen, showClearConfirmModal, uploads, runs, started, returned,
                   toastMessage, storage, isCameraOpen, streamRef, restVars>>

\* an output format radio button of the modal (lines 886-888)
selectOutputFormat(f) ==
    /\ isCustomModalOpen
    /\ customSettings.outputFormat # f
    /\ customSettings' = [customSettings EXCEPT !.outputFormat = f]
    /\ UNCHANGED <<imagePairs, likedImages, enhancingMode, progress,
                   isCustomModalOpen, showClearConfirmModal, uploads, runs, started, returned,
                   toastMessage, storage, isCameraOpen, streamRef, restVars>>

\* a material radio button of the modal (lines 812-829)
selectMaterial(m) ==
    /\ isCustomModalOpen
    /\ customSettings.material # m
    /\ customSettings' = [customSettings EXCEPT !.material = m]
    /\ UNCHANGED <<imagePairs, likedImages, enhancingMode, progress,
                   isCustomModalOpen, showClearConfirmModal, uploads, runs, started,
                   returned, toastMessage, storage, isCameraOpen, streamRef, restVars>>

\* a background radio button of the modal (lines 865-869)
selectBackground(b) ==
    /\ isCustomModalOpen
    /\ customSettings.background # b
    /\ customSettings' = [customSettings EXCEPT !.background = b]
    /\ UNCHANGED <<imagePairs, likedImages, enhancingMode, progress,
                   isCustomModalOpen, showClearConfirmModal, uploads, runs, started,
                   returned, toastMessage, storage, isCameraOpen, streamRef, restVars>>

\* a lighting radio button of the modal (lines 875-879)
selectLighting(l) ==
    /\ isCustomModalOpen
    /\ customSettings.lighting # l
    /\ customSettings' = [customSettings EXCEPT !.lighting = l]
    /\ UNCHANGED <<imagePairs, likedImages, enhancingMode, progress,
                   isCustomModalOpen, showClearConfirmModal, uploads, runs, started,
                   returned, toastMessage, storage, isCameraOpen, streamRef, restVars>>

\* handleCustomEnhance (lines 364-472), up to the await of line 466; the
\* Continue button is disabled like the triggers (line 894)
handleCustomEnhance ==
    LET sourcePairs == sourcePairsToProcess(imagePairs)
        jobs == CustomJobs(sourcePairs, customSettings)
    IN  /\ isCustomModalOpen
        /\ started < MaxRuns
        /\ ~(Len(sourcePairs) = 0 \/ enhancingMode # "null")
        /\ isCustomModalOpen' = FALSE
        /\ IF Len(jobs) = 0
           THEN /\ toastMessage' = "No enhancements or angles selected."
                /\ UNCHANGED <<enhancingMode, progress, imagePairs, runs, started>>
           ELSE /\ enhancingMode' = "custom"
                /\ progress' = [completed |-> 0, total |-> Len(jobs)]
                /\ imagePairs' = imagePairs \o newResultPairs(jobs)
                /\ runs' = Append(runs, StartRun("custom", customSettings.outputFormat, jobs))
                /\ started' = started + 1
                /\ UNCHANGED toastMessage
        /\ UNCHANGED <<likedImages, customSettings, showClearConfirmModal, uploads,
                       returned, storage, isCameraOpen, streamRef, restVars>>

\* a remove button that is offered on the card of an original too
handleRemoveImageAny(id) ==
    /\ PageActive
    /\ \E p \in Range(imagePairs) : p.id = id
    /\ imagePairs' = SelectSeq(imagePairs, LAMBDA p : p.id # id)
    /\ UNCHANGED <<likedImages, enhancingMode, progress, isCustomModalOpen,
                   customSettings, showClearConfirmModal, uploads, runs, started, returned,
                   toastMessage, storage, isCameraOpen, streamRef, restVars>>

\* handleRemoveImage (lines 474-476), the remove button of a result card (line 1021)
handleRemoveImage(id) ==
    /\ PageActive
    /\ \E p \in Range(imagePairs) : p.id = id /\ p.id # p.sourceId
    /\ imagePairs' = SelectSeq(imagePairs, LAMBDA p : p.id # id)
    /\ UNCHANGED <<likedImages, enhancingMode, progress, isCustomModalOpen,
                   customSettings, showClearConfirmModal, uploads, runs, started, returned,
                   toastMessage, storage, isCameraOpen, streamRef, restVars>>

\* a group removal that deletes the original and leaves its results
handleRemoveGroupOriginalOnly(sourceId) ==
    /\ PageActive
    /\ \E p \in Range(imagePairs) : p.id = sourceId /\ p.id = p.sourceId
    /\ imagePairs' = SelectSeq(imagePairs, LAMBDA p : p.id # sourceId)
    /\ UNCHANGED <<likedImages, enhancingMode, progress, isCustomModalOpen,
                   customSettings, showClearConfirmModal, uploads, runs, started, returned,
                   toastMessage, storage, isCameraOpen, streamRef, restVars>>

\* handleRemoveGroup (lines 478-480), the remove button of a source card (line 994)
handleRemoveGroup(sourceId) ==
    /\ PageActive
    /\ \E p \in Range(imagePairs) : p.id = sourceId /\ p.id = p.sourceId
    /\ imagePairs' = SelectSeq(imagePairs, LAMBDA p : p.sourceId # sourceId)
    /\ UNCHANGED <<likedImages, enhancingMode, progress, isCustomModalOpen,
                   customSettings, showClearConfirmModal, uploads, runs, started, returned,
                   toastMessage, storage, isCameraOpen, streamRef, restVars>>

\* handleClearSession (lines 482-484); the button is enabled by line 923
handleClearSession ==
    /\ PageActive
    /\ ~(Len(imagePairs) = 0 /\ Len(likedImages) = 0)
    /\ ~showClearConfirmModal
    /\ showClearConfirmModal' = TRUE
    /\ UNCHANGED <<imagePairs, likedImages, enhancingMode, progress,
                   isCustomModalOpen, customSettings, uploads, runs, started, returned,
                   toastMessage, storage, isCameraOpen, streamRef, restVars>>

\* the Cancel button of the confirmation (line 790)
cancelClearSession ==
    /\ showClearConfirmModal
    /\ showClearConfirmModal' = FALSE
    /\ UNCHANGED <<imagePairs, likedImages, enhancingMode, progress,
                   isCustomModalOpen, customSettings, uploads, runs, started, returned,
                   toastMessage, storage, isCameraOpen, streamRef, restVars>>

\* executeClearSession (lines 486-508)
executeClearSession ==
    /\ showClearConfirmModal
    /\ imagePairs' = <<>>
    /\ likedImages' = <<>>
    /\ customSettings' = defaultCustomSettings
    /\ enhancingMode' = "null"
    /\ progress' = [completed |-> 0, total |-> 0]
    /\ isCustomModalOpen' = FALSE
    /\ showClearConfirmModal' = FALSE
    /\ isCameraOpen' = FALSE
    /\ streamRef' = stopTracks(streamRef)
    /\ toastMessage' = "Session cleared successfully."
    /\ storage' = saved(<<>>)
    /\ UNCHANGED <<uploads, runs, started, returned, restVars>>

\* a like button that adds without looking for the id
handleToggleLikeAlwaysAdds(pairToToggle) ==
    /\ PageActive
    /\ \/ pairToToggle \in {p \in Range(imagePairs) :
                               p.id # p.sourceId /\ p.enhanced # Null}
       \/ pairToToggle \in Range(likedImages)
    /\ likedImages' = Append(likedImages, [pairToToggle EXCEPT !.isSelected = FALSE])
    /\ storage' = saved(likedImages')
    /\ UNCHANGED <<imagePairs, enhancingMode, progress, isCustomModalOpen,
                   customSettings, showClearConfirmModal, uploads, runs, started, returned,
                   toastMessage, isCameraOpen, streamRef, restVars>>

\* handleToggleLike (lines 737-747), from a result card that shows an image
\* (line 1013) or from a card of the liked gallery (line 953)
handleToggleLike(pairToToggle) ==
    /\ PageActive
    /\ \/ pairToToggle \in {p \in Range(imagePairs) :
                               p.id # p.sourceId /\ p.enhanced # Null}
       \/ pairToToggle \in Range(likedImages)
    /\ likedImages' =
          IF \E p \in Range(likedImages) : p.id = pairToToggle.id
          THEN SelectSeq(likedImages, LAMBDA p : p.id # pairToToggle.id)
          ELSE Append(likedImages, [pairToToggle EXCEPT !.isSelected = FALSE])
    /\ storage' = saved(likedImages')
    /\ UNCHANGED <<imagePairs, enhancingMode, progress, isCustomModalOpen,
                   customSettings, showClearConfirmModal, uploads, runs, started, returned,
                   toastMessage, isCameraOpen, streamRef, restVars>>

\* a selection checkbox that updates the liked entry of the same id too
handleToggleSelectionTracked(id) ==
    /\ PageActive
    /\ \E p \in Range(imagePairs) : p.id = id /\ p.id # p.sourceId /\ p.enhanced # Null
    /\ imagePairs' = [k \in 1..Len(imagePairs) |->
                        IF imagePairs[k].id = id
                        THEN [imagePairs[k] EXCEPT !.isSelected = ~@]
                        ELSE imagePairs[k]]
    /\ likedImages' = [k \in 1..Len(likedImages) |->
                        IF likedImages[k].id = id
                        THEN [likedImages[k] EXCEPT !.isSelected = ~@]
                        ELSE likedImages[k]]
    /\ storage' = saved(likedImages')
    /\ UNCHANGED <<enhancingMode, progress, isCustomModalOpen, customSettings,
                   showClearConfirmModal, uploads, runs, started, returned,
                   toastMessage, isCameraOpen, streamRef, restVars>>

\* handleToggleSelection (lines 632-636), the checkbox of a result card that
\* shows an image (line 1031)
handleToggleSelection(id) ==
    /\ PageActive
    /\ \E p \in Range(imagePairs) : p.id = id /\ p.id # p.sourceId /\ p.enhanced # Null
    /\ imagePairs' = [k \in 1..Len(imagePairs) |->
                        IF imagePairs[k].id = id
                        THEN [imagePairs[k] EXCEPT !.isSelected = ~@]
                        ELSE imagePairs[k]]
    /\ UNCHANGED <<likedImages, enhancingMode, progress, isCustomModalOpen,
                   customSettings, showClearConfirmModal, uploads, runs, started,
                   returned, toastMessage, storage, isCameraOpen, streamRef, restVars>>

\* handleToggleLikedSelection (lines 749-753), the checkbox of a card of the
\* liked gallery (line 958); the save effect follows (lines 75-77)
handleToggleLikedSelection(id) ==
    /\ PageActive
    /\ \E p \in Range(likedImages) : p.id = id /\ p.enhanced # Null
    /\ likedImages' = [k \in 1..Len(likedImages) |->
                        IF likedImages[k].id = id
                        THEN [likedImages[k] EXCEPT !.isSelected = ~@]
                        ELSE likedImages[k]]
    /\ storage' = saved(likedImages')
    /\ UNCHANGED <<imagePairs, enhancingMode, progress, isCustomModalOpen,
                   customSettings, showClearConfirmModal, uploads, runs, started,
                   returned, toastMessage, isCameraOpen, streamRef, restVars>>

-----------------------------------------------------------------------------
(* The mount of App (lines 62-77).  boot.phase is "mounted" after the first *)
(* render, before its effects have run; "loaded" when they have run and the *)
(* update setLikedImages(parsed) waits for its render; "ready" when no      *)
(* effect and no update is pending; "crashed" when an effect has thrown and *)
(* React has unmounted the tree.  reads counts the calls of getItem, logged  *)
(* tells that console.error was called by the load effect.                  *)

Ready == boot.phase = "ready"

\* a load effect that reports the unreadable item to the user
mountEffectsWithToast ==
    /\ boot.phase = "mounted"
    /\ boot' = [boot EXCEPT !.reads = @ + 1,
                            !.logged = storage # Null /\ ~storage[1].parses,
                            !.queued = IF storage # Null /\ storage[1].parses
                                       THEN Some(storage[1].value) ELSE Null,
                            !.phase = IF storage # Null /\ storage[1].parses
                                      THEN "loaded" ELSE "ready"]
    /\ toastMessage' = IF storage # Null /\ ~storage[1].parses
                       THEN "Could not load liked images." ELSE toastMessage
    /\ storage' = saved(likedImages)
    /\ UNCHANGED <<imagePairs, likedImages, enhancingMode, progress, isCustomModalOpen,
                   customSettings, showClearConfirmModal, uploads, runs, started,
                   returned, isDownloading, isDownloadingLiked, zips,
                   downloads, isCameraOpen, streamRef, cameraCall, ornamentCall>>

\* the effects of the first render: the load effect (lines 62-72) reads the
\* item and, if it is there, parses it and hands the value to setLikedImages,
\* or logs the error of JSON.parse; the save effect (lines 75-77) then writes
\* the liked set of the first render
mountEffects ==
    /\ boot.phase = "mounted"
    /\ boot' = [boot EXCEPT !.reads = @ + 1,
                            !.logged = storage # Null /\ ~storage[1].parses,
                            !.queued = IF storage # Null /\ storage[1].parses
                                       THEN Some(storage[1].value) ELSE Null,
                            !.phase = IF storage # Null /\ storage[1].parses
                                      THEN "loaded" ELSE "ready"]
    /\ storage' = saved(likedImages)
    /\ UNCHANGED <<imagePairs, likedImages, enhancingMode, progress, isCustomModalOpen,
                   customSettings, showClearConfirmModal, uploads, runs, started,
                   returned, toastMessage, isDownloading, isDownloadingLiked, zips,
                   downloads, isCameraOpen, streamRef, cameraCall, ornamentCall>>

\* the render of the restored liked set, and the save effect after it
applyRestore ==
    /\ boot.phase = "loaded"
    /\ likedImages' = boot.queued[1]
    /\ storage' = saved(likedImages')
    /\ boot' = [boot EXCEPT !.phase = "ready", !.queued = Null]
    /\ UNCHANGED <<imagePairs, enhancingMode, progress, isCustomModalOpen,
                   customSettings, showClearConfirmModal, uploads, runs, started,
                   returned, toastMessage, isDownloading, isDownloadingLiked, zips,
                   downloads, isCameraOpen, streamRef, cameraCall, ornamentCall>>

\* handleToggleLike adds an entry (lines 737-747) and setItem throws in the
\* save effect (line 76, QuotaExceededError: the item holds the data URL of
\* every liked image): the item keeps its text, and the error, which no
\* handler and no error boundary catches, unmounts App
handleToggleLikeQuotaExceeded(pairToToggle) ==
    /\ PageActive
    /\ pairToToggle \in {p \in Range(imagePairs) : p.id # p.sourceId /\ p.enhanced # Null}
    /\ ~\E p \in Range(likedImages) : p.id = pairToToggle.id
    /\ likedImages' = Append(likedImages, [pairToToggle EXCEPT !.isSelected = FALSE])
    /\ boot' = [boot EXCEPT !.phase = "crashed"]
    /\ UNCHANGED <<imagePairs, enhancingMode, progress, isCustomModalOpen,
                   customSettings, showClearConfirmModal, uploads, runs, started,
                   returned, toastMessage, storage, isDownloading, isDownloadingLiked,
                   zips, downloads, isCameraOpen, streamRef, cameraCall, ornamentCall>>

-----------------------------------------------------------------------------
(* Bulk export (lines 638-720).  zips.session and zips.liked hold the files *)
(* put into the archive whose generateAsync is awaited by                   *)
(* handleDownloadSelected and handleDownloadSelectedLiked.                  *)

\* getExtensionFromMimeType (lines 646-653, 688-695)
getExtensionFromMimeType(mimeType) ==
    CASE mimeType = "png" -> "png"
      [] mimeType = "webp" -> "webp"
      [] OTHER -> "jpg"

\* the files of the archive (lines 655-663, 697-705): `${stem}-${index + 1}.${ext}`
zipFiles(stem, selected) ==
    [k \in 1..Len(selected) |->
        [name |-> [stem |-> stem, index |-> k,
                   ext |-> getExtensionFromMimeType(selected[k].enhanced[1].mime)],
         data |-> selected[k].enhanced[1]]]

selectedWithImage(pairs) == SelectSeq(pairs, LAMBDA p : p.isSelected /\ p.enhanced # Null)

\* the archives asked for so far: delivered or in the making
Asked == Len(downloads) + (IF zips.session # Null THEN 1 ELSE 0)
                        + (IF zips.liked # Null THEN 1 ELSE 0)

\* handleDownloadSelected (lines 638-678), up to the await of line 665
handleDownloadSelected ==
    LET selectedImages == selectedWithImage(imagePairs)
    IN  /\ PageActive
        /\ Asked < MaxDownloads
        /\ ~(Len(selectedImages) = 0 \/ isDownloading)
        /\ isDownloading' = TRUE
        /\ zips' = [zips EXCEPT !.session = Some(zipFiles("enhanced-jewelry", selectedImages))]
        /\ UNCHANGED <<imagePairs, likedImages, enhancingMode, progress,
                       isCustomModalOpen, customSettings, showClearConfirmModal, uploads,
                       runs, started, returned, toastMessage, storage, boot,
                       isDownloadingLiked, downloads, isCameraOpen, streamRef,
                       cameraCall, ornamentCall>>

\* handleDownloadSelectedLiked (lines 680-720), up to the await of line 707
handleDownloadSelectedLiked ==
    LET selectedLikedImages == selectedWithImage(likedImages)
    IN  /\ PageActive
        /\ Asked < MaxDownloads
        /\ ~(Len(selectedLikedImages) = 0 \/ isDownloadingLiked)
        /\ isDownloadingLiked' = TRUE
        /\ zips' = [zips EXCEPT !.liked = Some(zipFiles("liked-jewelry", selectedLikedImages))]
        /\ UNCHANGED <<imagePairs, likedImages, enhancingMode, progress,
                       isCustomModalOpen, customSettings, showClearConfirmModal, uploads,
                       runs, started, returned, toastMessage, storage, boot,
                       isDownloading, downloads, isCameraOpen, streamRef,
                       cameraCall, ornamentCall>>

\* an export of the session whose failure leaves the flag set
generateAsyncSettlesNoFinally(ok) ==
    /\ zips.session # Null
    /\ zips' = [zips EXCEPT !.session = Null]
    /\ IF ok
       THEN /\ downloads' = Append(downloads, [download |-> "enhanced-jewelry.zip",
                                               files |-> zips.session[1]])
            /\ isDownloading' = FALSE
            /\ UNCHANGED toastMessage
       ELSE /\ toastMessage' = "Failed to download images."
            /\ UNCHANGED <<downloads, isDownloading>>
    /\ UNCHANGED <<imagePairs, likedImages, enhancingMode, progress, isCustomModalOpen,
                   customSettings, showClearConfirmModal, uploads, runs, started,
                   returned, storage, boot, isDownloadingLiked, isCameraOpen, streamRef,
                   cameraCall, ornamentCall>>

\* await zip.generateAsync settles in handleDownloadSelected (lines 665-677):
\* the archive is handed to the browser, or the catch block sets the toast;
\* the finally block resets the flag
generateAsyncSettles(ok) ==
    /\ zips.session # Null
    /\ zips' = [zips EXCEPT !.session = Null]
    /\ IF ok
       THEN /\ downloads' = Append(downloads, [download |-> "enhanced-jewelry.zip",
                                               files |-> zips.session[1]])
            /\ UNCHANGED toastMessage
       ELSE /\ toastMessage' = "Failed to download images."
            /\ UNCHANGED downloads
    /\ isDownloading' = FALSE
    /\ UNCHANGED <<imagePairs, likedImages, enhancingMode, progress, isCustomModalOpen,
                   customSettings, showClearConfirmModal, uploads, runs, started,
                   returned, storage, boot, isDownloadingLiked, isCameraOpen, streamRef,
                   cameraCall, ornamentCall>>

\* await zip.generateAsync settles in handleDownloadSelectedLiked (lines 707-719)
generateAsyncLikedSettles(ok) ==
    /\ zips.liked # Null
    /\ zips' = [zips EXCEPT !.liked = Null]
    /\ IF ok
       THEN /\ downloads' = Append(downloads, [download |-> "liked-jewelry.zip",
                                               files |-> zips.liked[1]])
            /\ UNCHANGED toastMessage
       ELSE /\ toastMessage' = "Failed to download liked images."
            /\ UNCHANGED downloads
    /\ isDownloadingLiked' = FALSE
    /\ UNCHANGED <<imagePairs, likedImages, enhancingMode, progress, isCustomModalOpen,
                   customSettings, showClearConfirmModal, uploads, runs, started,
                   returned, storage, boot, isDownloading, isCameraOpen, streamRef,
                   cameraCall, ornamentCall>>

-----------------------------------------------------------------------------
(* openCamera (lines 510-584) as a state machine over one call.             *)
(*   phase      "idle" (not called), "enumerate" (await enumerateDevices),  *)
(*              "request" (await getUserMedia), "done" (returned)           *)
(*   lastError  the local variable of line 531                              *)
(* requested and errors record what the call has done: the constraints      *)
(* handed to getUserMedia and the errors it threw.  The video element is    *)
(* rendered whether the camera is open or not (line 798), so videoRef is    *)
(* never null.                                                              *)

\* constraints (lines 533-537): facingMode environment, facingMode user, any
constraints == <<"environment", "user", "any">>

\* a thrown Error with its name, and a thrown value that is no Error
CameraError(name) == [isError |-> TRUE, name |-> name]
CameraNonError == [isError |-> FALSE, name |-> ""]

\* the outer catch block (lines 560-582); the names of the default branch
\* are those the model lets the device throw
CameraToast(err) ==
    IF ~err.isError
    THEN "An unknown error occurred while accessing the camera."
    ELSE CASE err.name \in {"NotAllowedError", "PermissionDeniedError"} ->
                "Camera access denied. Please enable it in browser settings."
           [] err.name \in {"NotFoundError", "DevicesNotFoundError"} ->
                "No compatible camera found on this device."
           [] err.name \in {"NotReadableError", "OverconstrainedError"} ->
                "Camera is in use by another application or hardware error occurred."
           [] err.name = "AbortError" ->
                "Camera error: AbortError. Please check permissions."
           [] err.name = "TypeError" ->
                "Camera error: TypeError. Please check permissions."

\* a catch block that keeps the error of the first failed request
CameraFailureKeepsFirst(call, err) ==
    [call EXCEPT !.errors = Append(@, err),
                 !.lastError = IF @ = Null THEN Some(err) ELSE @]

\* the inner catch block (lines 546-549)
CameraFailure(call, err) ==
    [call EXCEPT !.errors = Append(@, err), !.lastError = Some(err)]

\* openCamera is called (the Take Photo button, line 908), up to the await of
\* line 523; a call that has returned is forgotten when the next one is made
openCamera(supported) ==
    /\ PageActive
    /\ cameraCall.phase \in {"idle", "done"}
    /\ IF supported
       THEN /\ cameraCall' = [NoCameraCall EXCEPT !.phase = "enumerate"]
            /\ UNCHANGED toastMessage
       ELSE /\ cameraCall' = [NoCameraCall EXCEPT !.phase = "done"]
            /\ toastMessage' = "Camera access is not supported by this browser."
    /\ UNCHANGED <<imagePairs, likedImages, enhancingMode, progress, isCustomModalOpen,
                   customSettings, showClearConfirmModal, uploads, runs, started,
                   returned, storage, boot, isDownloading, isDownloadingLiked, zips,
                   downloads, isCameraOpen, streamRef, ornamentCall>>

\* await enumerateDevices (line 523) settles: with a video input, without
\* one, or with an error
enumerateDevicesSettles(res) ==
    /\ cameraCall.phase = "enumerate"
    /\ CASE res.kind = "videoinput" ->
              /\ cameraCall' = [cameraCall EXCEPT !.phase = "request",
                                                  !.requested = <<constraints[1]>>]
              /\ UNCHANGED toastMessage
         [] res.kind = "none" ->
              /\ cameraCall' = [cameraCall EXCEPT !.phase = "done"]
              /\ toastMessage' = "No camera found on this device."
         [] res.kind = "throws" ->
              /\ cameraCall' = [cameraCall EXCEPT !.phase = "done"]
              /\ toastMessage' = CameraToast(res.err)
    /\ UNCHANGED <<imagePairs, likedImages, enhancingMode, progress, isCustomModalOpen,
                   customSettings, showClearConfirmModal, uploads, runs, started,
                   returned, storage, boot, isDownloading, isDownloadingLiked, zips,
                   downloads, isCameraOpen, streamRef, ornamentCall>>

\* await getUserMedia (line 541) settles: with a stream (lines 542-545 and
\* 552-555), or with an error (lines 546-549, then the next constraint, or
\* lines 556-582 after the last)
getUserMediaSettles(res) ==
    /\ cameraCall.phase = "request"
    /\ IF res.kind = "stream"
       THEN /\ cameraCall' = [cameraCall EXCEPT !.phase = "done", !.lastError = Null]
            /\ streamRef' = Some([constraint |-> cameraCall.requested[Len(cameraCall.requested)],
                                  live |-> TRUE])
            /\ isCameraOpen' = TRUE
            /\ UNCHANGED toastMessage
       ELSE LET failed == CameraFailure(cameraCall, res.err)
                n == Len(cameraCall.requested)
            IN  IF n < Len(constraints)
                THEN /\ cameraCall' = [failed EXCEPT !.requested = Append(@, constraints[n + 1])]
                     /\ UNCHANGED <<toastMessage, streamRef, isCameraOpen>>
                ELSE /\ cameraCall' = [failed EXCEPT !.phase = "done"]
                     /\ toastMessage' = CameraToast(failed.lastError[1])
                     /\ UNCHANGED <<streamRef, isCameraOpen>>
    /\ UNCHANGED <<imagePairs, likedImages, enhancingMode, progress, isCustomModalOpen,
                   customSettings, showClearConfirmModal, uploads, runs, started,
                   returned, storage, boot, isDownloading, isDownloadingLiked, zips,
                   downloads, ornamentCall>>

\* closeCamera (lines 586-591), the Close button of the camera modal (line 802)
closeCamera ==
    /\ isCameraOpen
    /\ streamRef' = stopTracks(streamRef)
    /\ isCameraOpen' = FALSE
    /\ UNCHANGED <<imagePairs, likedImages, enhancingMode, progress, isCustomModalOpen,
                   customSettings, showClearConfirmModal, uploads, runs, started,
                   returned, toastMessage, storage, boot, isDownloading,
                   isDownloadingLiked, zips, downloads, cameraCall, ornamentCall>>

-----------------------------------------------------------------------------
(* getOrnamentType (lines 122-162) as a state machine over one call.        *)
(*   phase    "idle" (not called), "encode" (await fileToBase64),           *)
(*            "request" (await generateContent), "wait" (await setTimeout), *)
(*            "done" (returned)                                             *)
(*   attempt  the loop variable (MAX_RETRIES and INITIAL_RETRY_DELAY_MS are *)
(*            declared again, with the same values, in lines 123-124)       *)
(*   answer   response.text of the last response that had one               *)
(*   result   the returned string                                           *)
(* requests, waits and hist record what the call has done so far.           *)

Letters ==
    {"a", "b", "c", "d", "e", "f", "g", "h", "i", "j", "k", "l", "m", "n", "o", "p",
     "q", "r", "s", "t", "u", "v", "w", "x", "y", "z", "A", "B", "C", "D", "E", "F",
     "G", "H", "I", "J", "K", "L", "M", "N", "O", "P", "Q", "R", "S", "T", "U", "V",
     "W", "X", "Y", "Z"}

\* the characters \s matches, as far as the answers of the model use them
Whitespace == {" ", "\t", "\n", "\r"}

\* String.prototype.trim
RECURSIVE trimStart(_)
trimStart(str) ==
    IF str # <<>> /\ Head(str) \in Whitespace THEN trimStart(Tail(str)) ELSE str

RECURSIVE trimEnd(_)
trimEnd(str) ==
    IF str # <<>> /\ str[Len(str)] \in Whitespace
    THEN trimEnd(SubSeq(str, 1, Len(str) - 1))
    ELSE str

trim(str) == trimEnd(trimStart(str))

\* replace(/[^a-zA-Z\s]/g, '') (line 138)
stripOthers(str) == SelectSeq(str, LAMBDA c : c \in Letters \/ c \in Whitespace)

\* an ornament type that is the response text as it came
ornamentTypeUnsanitized(text) == text

\* ornamentType (line 138)
ornamentTypeOf(text) == stripOthers(trim(text))

JEWELRY == <<"J", "e", "w", "e", "l", "r", "y">>

\* the delay of line 156
OrnamentDelay(attempt) == INITIAL_RETRY_DELAY_MS * Pow2(attempt - 1)

\* the catch block (lines 149-158) and the fallback of line 161
OrnamentCatch(call, kind) ==
    IF call.attempt = MAX_RETRIES
    THEN [call EXCEPT !.phase = "done", !.hist = Append(@, kind),
                      !.result = Some(JEWELRY)]
    ELSE [call EXCEPT !.phase = "wait", !.hist = Append(@, kind),
                      !.waits = Append(@, OrnamentDelay(call.attempt))]

\* lines 138-146, for a response whose text is a string
OrnamentReturn(call, text) ==
    LET ornamentType == ornamentTypeOf(text)
    IN  [call EXCEPT !.phase = "done", !.hist = Append(@, "text"),
                     !.answer = Some(text),
                     !.result = IF /\ ornamentType # <<>>
                                   /\ Len(ornamentType) > 2
                                   /\ Len(ornamentType) < 25
                                THEN Some(ornamentType)
                                ELSE Some(JEWELRY)]

\* getOrnamentType is called (lines 178, 614); a call that has returned is
\* forgotten when the next one is made
getOrnamentType ==
    /\ ornamentCall.phase \in {"idle", "done"}
    /\ ornamentCall' = [NoOrnamentCall EXCEPT !.phase = "encode", !.attempt = 1]
    /\ UNCHANGED <<imagePairs, likedImages, enhancingMode, progress, isCustomModalOpen,
                   customSettings, showClearConfirmModal, uploads, runs, started,
                   returned, toastMessage, storage, boot, isDownloading,
                   isDownloadingLiked, zips, downloads, isCameraOpen, streamRef,
                   cameraCall>>

\* await fileToBase64 (line 129) settles
ornamentEncodeSettles(ok) ==
    /\ ornamentCall.phase = "encode"
    /\ ornamentCall' = IF ok
                       THEN [ornamentCall EXCEPT !.phase = "request", !.requests = @ + 1]
                       ELSE OrnamentCatch(ornamentCall, "encodeFail")
    /\ UNCHANGED <<imagePairs, likedImages, enhancingMode, progress, isCustomModalOpen,
                   customSettings, showClearConfirmModal, uploads, runs, started,
                   returned, toastMessage, storage, boot, isDownloading,
                   isDownloadingLiked, zips, downloads, isCameraOpen, streamRef,
                   cameraCall>>

\* await generateContent (lines 132-136) settles
ornamentResponseSettles(resp) ==
    /\ ornamentCall.phase = "request"
    /\ ornamentCall' = IF resp.kind = "text"
                       THEN OrnamentReturn(ornamentCall, resp.text)
                       ELSE OrnamentCatch(ornamentCall, resp.kind)
    /\ UNCHANGED <<imagePairs, likedImages, enhancingMode, progress, isCustomModalOpen,
                   customSettings, showClearConfirmModal, uploads, runs, started,
                   returned, toastMessage, storage, boot, isDownloading,
                   isDownloadingLiked, zips, downloads, isCameraOpen, streamRef,
                   cameraCall>>

\* the timer of line 157 fires
ornamentBackoffElapses ==
    /\ ornamentCall.phase = "wait"
    /\ ornamentCall' = [ornamentCall EXCEPT !.phase = "encode", !.attempt = @ + 1]
    /\ UNCHANGED <<imagePairs, likedImages, enhancingMode, progress, isCustomModalOpen,
                   customSettings, showClearConfirmModal, uploads, runs, started,
                   returned, toastMessage, storage, boot, isDownloading,
                   isDownloadingLiked, zips, downloads, isCameraOpen, streamRef,
                   cameraCall>>

-----------------------------------------------------------------------------
(* What the collaborators can answer *)

Msg429 == Str429
MsgHttp429 == <<"E", "4", "2", "9", "!">>
MsgQuotaMixed == <<"Q", "u", "o", "t", "a">>
MsgQuotaUpper == <<"n", "o", " ", "Q", "U", "O", "T", "A">>
MsgRateLimitMixed == <<"R", "a", "t", "e", " ", "L", "i", "m", "i", "t">>
MsgRateHyphen == <<"r", "a", "t", "e", "-", "l", "i", "m", "i", "t">>
Msg42Space9 == <<"4", "2", " ", "9">>
MsgNetwork == <<"n", "e", "t">>
MsgEmpty == <<>>

Messages == {Msg429, MsgHttp429, MsgQuotaMixed, MsgQuotaUpper, MsgRateLimitMixed,
             MsgRateHyphen, Msg42Space9, MsgNetwork, MsgEmpty}

Reject(msg) == [kind |-> "reject", message |-> msg, mime |-> ""]
NoImage == [kind |-> "noImage", message |-> <<>>, mime |-> ""]
Image(mime) == [kind |-> "image", message |-> <<>>, mime |-> mime]

ConvertOk == [ok |-> TRUE, message |-> <<>>]
ConvertFail(msg) == [ok |-> FALSE, message |-> msg]

\* every answer, for the checks of the retry harness
AllResponses == {Reject(m) : m \in Messages} \cup {NoImage, Image("png")}
AllConversions == {ConvertOk, ConvertFail(NO_CONTEXT_MESSAGE), ConvertFail(LOAD_FAILED_MESSAGE)}

\* the answers drawn where many jobs and handlers interleave
FewResponses == {Reject(Msg429), Image("png")}
FewConversions == {ConvertOk, ConvertFail(LOAD_FAILED_MESSAGE)}

-----------------------------------------------------------------------------
(* The session: every handler, interleaved with the steps of the runs *)

Init ==
    /\ imagePairs = <<>>
    /\ likedImages = <<>>
    /\ enhancingMode = "null"
    /\ progress = [completed |-> 0, total |-> 0]
    /\ isCustomModalOpen = FALSE
    /\ customSettings = defaultCustomSettings
    /\ showClearConfirmModal = FALSE
    /\ uploads = 0
    /\ runs = <<>>
    /\ started = 0
    /\ returned = Null
    /\ AppAtRest

\* the calls of enhanceImageWithRetry made by the runs in flight: <<run, job>>
Calls == UNION {{<<r, j>> : j \in 1..Len(runs[r].jobs)} : r \in 1..Len(runs)}

Next ==
    \/ handleFileChange
    \/ handleAutoEnhance
    \/ \E p \in Range(imagePairs) : handleRemoveImage(p.id)
    \/ \E p \in Range(imagePairs) : handleRemoveGroup(p.id)
    \/ handleClearSession
    \/ cancelClearSession
    \/ executeClearSession
    \/ \E p \in Range(imagePairs) \cup Range(likedImages) : handleToggleLike(p)
    \/ \E c \in Calls : \E ok \in {TRUE} : fileToBase64Settles(c[1], c[2], ok)
    \/ \E c \in Calls : \E resp \in FewResponses : generateContentSettles(c[1], c[2], resp)
    \/ \E c \in Calls : backoffElapses(c[1], c[2])

Spec == Init /\ [][Next]_vars

\* a step of a call of enhanceImageWithRetry: one of its awaits settles
JobStep ==
    \E c \in Calls :
        \/ \E ok \in {TRUE} : fileToBase64Settles(c[1], c[2], ok)
        \/ \E resp \in FewResponses : generateContentSettles(c[1], c[2], resp)
        \/ backoffElapses(c[1], c[2])

\* uploads, Auto runs and Clear Session, when every pending call and every
\* timer settles in the end
NextLive ==
    \/ handleFileChange
    \/ handleAutoEnhance
    \/ handleClearSession
    \/ cancelClearSession
    \/ executeClearSession
    \/ JobStep

SpecLive == Init /\ [][NextLive]_vars /\ WF_vars(JobStep)

-----------------------------------------------------------------------------
(* The retry harness alone: one uploaded image, one run, every answer.  The *)
(* run is an Auto run (no output format) or a Custom run of the front view  *)
(* with one of the output formats.                                          *)

InitRetry ==
    /\ imagePairs = <<OriginalPair(1)>>
    /\ likedImages = <<>>
    /\ enhancingMode = "null"
    /\ progress = [completed |-> 0, total |-> 0]
    /\ isCustomModalOpen = FALSE
    /\ customSettings = defaultCustomSettings
    /\ showClearConfirmModal = FALSE
    /\ uploads = 1
    /\ runs = <<>>
    /\ started = 0
    /\ returned = Null
    /\ AppAtRest

NextRetry ==
    \/ handleAutoEnhance
    \/ openCustomModal
    \/ closeCustomModal
    \/ \E f \in ModelFormats : selectOutputFormat(f)
    \/ handleCustomEnhance
    \/ \E c \in Calls : \E ok \in BOOLEAN : fileToBase64Settles(c[1], c[2], ok)
    \/ \E c \in Calls : \E resp \in AllResponses : generateContentSettles(c[1], c[2], resp)
    \/ \E c \in Calls : \E conv \in AllConversions : convertImageFormatSettles(c[1], c[2], conv)
    \/ \E c \in Calls : backoffElapses(c[1], c[2])

SpecRetry == InitRetry /\ [][NextRetry]_vars

\* a step of a call of enhanceImageWithRetry under any answer
RetryStep ==
    \E c \in Calls :
        \/ \E ok \in BOOLEAN : fileToBase64Settles(c[1], c[2], ok)
        \/ \E resp \in AllResponses : generateContentSettles(c[1], c[2], resp)
        \/ \E conv \in AllConversions : convertImageFormatSettles(c[1], c[2], conv)
        \/ backoffElapses(c[1], c[2])

\* the retry harness when every pending call and every timer settles in the end
SpecRetryLive == InitRetry /\ [][NextRetry]_vars /\ WF_vars(RetryStep)

-----------------------------------------------------------------------------
(* The batch scheduler alone: N images uploaded, then one Auto run *)

InitBatch ==
    \E n \in 1..MaxJobs :
        /\ imagePairs = [k \in 1..n |-> OriginalPair(k)]
        /\ likedImages = <<>>
        /\ enhancingMode = "null"
        /\ progress = [completed |-> 0, total |-> 0]
        /\ isCustomModalOpen = FALSE
        /\ customSettings = defaultCustomSettings
        /\ showClearConfirmModal = FALSE
        /\ uploads = n
        /\ runs = <<>>
        /\ started = 0
        /\ returned = Null
        /\ AppAtRest

NextBatch ==
    \/ handleAutoEnhance
    \/ \E c \in Calls : \E ok \in {TRUE} : fileToBase64Settles(c[1], c[2], ok)
    \/ \E c \in Calls : \E resp \in FewResponses : generateContentSettles(c[1], c[2], resp)
    \/ \E c \in Calls : backoffElapses(c[1], c[2])

SpecBatch == InitBatch /\ [][NextBatch]_vars

-----------------------------------------------------------------------------
(* Uploads, Auto runs, the removal of result cards and Clear Session, at    *)
(* any point of the runs in flight, when every pending call and every timer *)
(* settles in the end                                                       *)

MaxLiveRuns == 2

NextLoading ==
    \/ handleFileChange
    \/ started < MaxLiveRuns /\ handleAutoEnhance
    \/ \E p \in Range(imagePairs) : handleRemoveImage(p.id)
    \/ handleClearSession
    \/ cancelClearSession
    \/ executeClearSession
    \/ JobStep

SpecLoading == Init /\ [][NextLoading]_vars /\ WF_vars(JobStep)

-----------------------------------------------------------------------------
(* The batch scheduler under Clear Session: N images uploaded, one Auto     *)
(* run, and the session cleared at any point of it                          *)

NextProgress ==
    \/ handleAutoEnhance
    \/ handleClearSession
    \/ cancelClearSession
    \/ executeClearSession
    \/ JobStep

SpecProgress == InitBatch /\ [][NextProgress]_vars

-----------------------------------------------------------------------------
(* Auto and Custom runs over the uploads of a session: the modal with its   *)
(* angle checkboxes, the default output format (so every image of a Custom  *)
(* run is re-encoded), no removal and no Clear Session.                     *)

NextCustom ==
    \/ handleFileChange
    \/ handleAutoEnhance
    \/ openCustomModal
    \/ closeCustomModal
    \/ \E a \in ModelAngles : toggleAngle(a)
    \/ handleCustomEnhance
    \/ \E c \in Calls : \E ok \in {TRUE} : fileToBase64Settles(c[1], c[2], ok)
    \/ \E c \in Calls : \E resp \in FewResponses : generateContentSettles(c[1], c[2], resp)
    \/ \E c \in Calls : \E conv \in FewConversions : convertImageFormatSettles(c[1], c[2], conv)
    \/ \E c \in Calls : backoffElapses(c[1], c[2])

SpecCustom == Init /\ [][NextCustom]_vars

-----------------------------------------------------------------------------
(* The galleries: two uploaded images, Auto runs whose calls return at the  *)
(* first answer, and the like, selection and removal controls of the cards. *)

InitGallery ==
    /\ imagePairs = <<OriginalPair(1), OriginalPair(2)>>
    /\ likedImages = <<>>
    /\ enhancingMode = "null"
    /\ progress = [completed |-> 0, total |-> 0]
    /\ isCustomModalOpen = FALSE
    /\ customSettings = defaultCustomSettings
    /\ showClearConfirmModal = FALSE
    /\ uploads = 2
    /\ runs = <<>>
    /\ started = 0
    /\ returned = Null
    /\ AppAtRest

NextGallery ==
    \/ handleAutoEnhance
    \/ \E c \in Calls : \E ok \in {TRUE} : fileToBase64Settles(c[1], c[2], ok)
    \/ \E c \in Calls : \E resp \in {Image("png")} : generateContentSettles(c[1], c[2], resp)
    \/ \E p \in Range(imagePairs) \cup Range(likedImages) : handleToggleLike(p)
    \/ \E p \in Range(imagePairs) : handleToggleSelection(p.id)
    \/ \E p \in Range(likedImages) : handleToggleLikedSelection(p.id)
    \/ \E p \in Range(imagePairs) : handleRemoveImage(p.id)
    \/ \E p \in Range(imagePairs) : handleRemoveGroup(p.id)

SpecGallery == InitGallery /\ [][NextGallery]_vars

-----------------------------------------------------------------------------
(* The prompts of a Custom run: one uploaded image and the modal with every *)
(* angle, material, background and lighting; the run is started and its     *)
(* first calls are made.                                                    *)

NextPrompt ==
    \/ openCustomModal
    \/ closeCustomModal
    \/ \E a \in Range(allAngleKeys) : toggleAngle(a)
    \/ \E m \in {"auto", "gold", "silver", "platinum"} : selectMaterial(m)
    \/ \E b \in {"velvet", "marble", "abstract", "whiteStudio", "gradient"} :
          selectBackground(b)
    \/ \E l \in {"soft", "dramatic", "natural", "highKey", "shadowed"} :
          selectLighting(l)
    \/ handleCustomEnhance
    \/ \E c \in Calls : \E ok \in {TRUE} : fileToBase64Settles(c[1], c[2], ok)

SpecPrompt == InitRetry /\ [][NextPrompt]_vars

-----------------------------------------------------------------------------
(* The identification of an ornament alone: calls of getOrnamentType under  *)
(* every answer.                                                            *)

Repeat(c, n) == [k \in 1..n |-> c]

\* a text whose two words stand on two lines
TextTwoLines == <<"S", "n", "a", "k", "e", "\n", "R", "i", "n", "g">>

\* the texts of the responses: plain, quoted, on two lines, padded, with a
\* mark after a space, of 3 and 2 letters, with digits, marks only, empty,
\* and of 24 and 25 characters, and of 24 letters and a mark
OrnamentTexts ==
    {<<"S", "n", "a", "k", "e">>,
     <<"'", "S", "n", "a", "k", "e", " ", "R", "i", "n", "g", "'", ".">>,
     TextTwoLines,
     <<" ", "\n", "O", "w", "l", " ", "\n">>,
     <<"O", "w", "l", " ", "!">>,
     <<"O", "w", "l">>,
     <<"O", "x">>,
     <<"2", "4", "K">>,
     <<".", ".", ".">>,
     <<>>,
     Repeat("a", 24),
     Repeat("a", 25),
     Repeat("a", 24) \o <<"!">>}

\* what generateContent answers: a rejection, a response whose text is
\* undefined (trim then raises a TypeError), or a response with a text
OrnamentAnswers ==
    {[kind |-> "reject", text |-> <<>>], [kind |-> "noText", text |-> <<>>]}
        \cup {[kind |-> "text", text |-> t] : t \in OrnamentTexts}

NextOrnament ==
    \/ getOrnamentType
    \/ \E ok \in BOOLEAN : ornamentEncodeSettles(ok)
    \/ \E resp \in OrnamentAnswers : ornamentResponseSettles(resp)
    \/ ornamentBackoffElapses

SpecOrnament == Init /\ [][NextOrnament]_vars

-----------------------------------------------------------------------------
(* The liked set across sessions: App mounts on a device whose item is      *)
(* absent, unparsable, or the liked set an earlier session wrote; then      *)
(* uploads, Auto runs whose calls return at the first answer, likes and     *)
(* Clear Session.  Nothing can be operated before App is ready or after it  *)
(* was unmounted.                                                           *)

\* a liked entry as an earlier session wrote it: its upload has another stamp
EarlierLiked(n) ==
    stringifyPair([LoadingPair(OriginalPair(0 - n), "auto") EXCEPT
                      !.enhanced = Some(DataUrl(0 - n, "png")),
                      !.isLoading = FALSE, !.isSelected = (n = 2)])

StoredItems ==
    {Null, Some(Unparsable), saved(<<>>), Some(stringify(<<EarlierLiked(1)>>)),
     Some(stringify(<<EarlierLiked(1), EarlierLiked(2)>>))}

InitPersist ==
    /\ imagePairs = <<>>
    /\ likedImages = <<>>
    /\ enhancingMode = "null"
    /\ progress = [completed |-> 0, total |-> 0]
    /\ isCustomModalOpen = FALSE
    /\ customSettings = defaultCustomSettings
    /\ showClearConfirmModal = FALSE
    /\ uploads = 0
    /\ runs = <<>>
    /\ started = 0
    /\ returned = Null
    /\ toastMessage = ""
    /\ storage \in StoredItems
    /\ boot = [phase |-> "mounted", queued |-> Null, reads |-> 0, logged |-> FALSE]
    /\ isDownloading = FALSE
    /\ isDownloadingLiked = FALSE
    /\ zips = NoZips
    /\ downloads = <<>>
    /\ isCameraOpen = FALSE
    /\ streamRef = Null
    /\ cameraCall = NoCameraCall
    /\ ornamentCall = NoOrnamentCall

NextPersist ==
    \/ mountEffects
    \/ applyRestore
    \/ Ready /\ handleFileChange
    \/ Ready /\ handleAutoEnhance
    \/ Ready /\ \E c \in Calls : \E ok \in {TRUE} : fileToBase64Settles(c[1], c[2], ok)
    \/ Ready /\ \E c \in Calls : \E resp \in {Image("png")} :
                    generateContentSettles(c[1], c[2], resp)
    \/ Ready /\ \E p \in Range(imagePairs) \cup Range(likedImages) : handleToggleLike(p)
    \/ Ready /\ \E p \in Range(imagePairs) : handleToggleLikeQuotaExceeded(p)
    \/ Ready /\ \E p \in Range(likedImages) : handleToggleLikedSelection(p.id)
    \/ Ready /\ handleClearSession
    \/ Ready /\ cancelClearSession
    \/ Ready /\ executeClearSession

SpecPersist == InitPersist /\ [][NextPersist]_vars

-----------------------------------------------------------------------------
(* Bulk export: uploads, one run at a time (an Auto run, whose images come  *)
(* as gif, or a Custom run re-encoding to the chosen format), the selection *)
(* and like controls, and the two exports.                                  *)

NextExport ==
    \/ handleFileChange
    \/ handleAutoEnhance
    \/ openCustomModal
    \/ \E f \in ModelFormats : selectOutputFormat(f)
    \/ handleCustomEnhance
    \/ \E c \in Calls : \E ok \in {TRUE} : fileToBase64Settles(c[1], c[2], ok)
    \/ \E c \in Calls : \E resp \in {Image("gif")} : generateContentSettles(c[1], c[2], resp)
    \/ \E c \in Calls : \E conv \in {ConvertOk} : convertImageFormatSettles(c[1], c[2], conv)
    \/ \E p \in Range(imagePairs) : handleToggleSelection(p.id)
    \/ \E p \in Range(imagePairs) \cup Range(likedImages) : handleToggleLike(p)
    \/ \E p \in Range(likedImages) : handleToggleLikedSelection(p.id)
    \/ handleDownloadSelected
    \/ handleDownloadSelectedLiked
    \/ \E ok \in BOOLEAN : generateAsyncSettles(ok)
    \/ \E ok \in BOOLEAN : generateAsyncLikedSettles(ok)

SpecExport == Init /\ [][NextExport]_vars

-----------------------------------------------------------------------------
(* The camera: calls of openCamera under every answer of the device, the    *)
(* Close button, and Clear Session (which closes the camera too).           *)

\* what getUserMedia answers: a stream, or a thrown value
StreamAnswers ==
    {[kind |-> "stream", err |-> CameraNonError], [kind |-> "throws", err |-> CameraNonError]}
        \cup {[kind |-> "throws", err |-> CameraError(n)] :
                 n \in {"NotAllowedError", "NotFoundError", "NotReadableError",
                        "OverconstrainedError", "AbortError"}}

NextCamera ==
    \/ handleFileChange
    \/ \E supported \in BOOLEAN : openCamera(supported)
    \/ \E res \in {[kind |-> "videoinput", err |-> CameraNonError],
                   [kind |-> "none", err |-> CameraNonError],
                   [kind |-> "throws", err |-> CameraError("TypeError")]} :
          enumerateDevicesSettles(res)
    \/ \E res \in StreamAnswers : getUserMediaSettles(res)
    \/ closeCamera
    \/ handleClearSession
    \/ cancelClearSession
    \/ executeClearSession

SpecCamera == Init /\ [][NextCamera]_vars

-----------------------------------------------------------------------------
(* What the properties speak about *)

\* every call of runEnhancement the state still shows: in flight, or returned last
KnownRuns == Range(runs) \cup Range(returned)

\* the state of every call of enhanceImageWithRetry of those runs
KnownJobs == UNION {Range(run.js) : run \in KnownRuns}

\* the jobs of the chunk with 0-based number b, for chunks of five
ChunkOf(run, b) == {k \in 1..Len(run.jobs) : (k - 1) \div 5 = b}

Failed(o) == o.kind # "image"

\* a job that has returned after three attempts
Exhausted(job) == job.phase = "done" /\ Len(job.hist) = 3 /\ Failed(job.hist[3])

-----------------------------------------------------------------------------
(* C1: at most one enhancement run is in flight at any time: no new run is  *)
(* started while jobs of an earlier run are unsettled.  Stated as the claim *)
(* has it; executeClearSession returns the session to idle in mid-run, and  *)
(* the next trigger starts a second run beside the first.                   *)
C1_SingleRunInFlight ==
    Cardinality({r \in 1..Len(runs) : InFlight(runs[r]) # {}}) <= 1

(* C2: once a run has started the system is not idle before every job of   *)
(* that run has settled.  Stated as the claim has it; executeClearSession   *)
(* sets enhancingMode to null while the jobs are in flight.                 *)
C2_RunningUntilSettled ==
    \A r \in 1..Len(runs) : InFlight(runs[r]) # {} => enhancingMode # "null"

-----------------------------------------------------------------------------
(* C3: the jobs are processed in contiguous chunks of five, in input order *)
(* and strictly one chunk after the other: a job has been called, and has   *)
(* issued a request, only if every job of every earlier chunk has settled;  *)
(* at most five jobs of a run are in flight; seven jobs make two chunks, of *)
(* five and of two.                                                         *)
C3_SequentialChunks ==
    \A run \in KnownRuns :
        LET n == Len(run.jobs)
        IN  /\ \A k \in 1..n :
                  (run.js[k].phase # "pending" \/ run.js[k].requests > 0) =>
                      \A m \in 1..n :
                          (m - 1) \div 5 < (k - 1) \div 5 => run.js[m].phase = "done"
            /\ Cardinality(InFlight(run)) <= 5
            /\ \A b \in 1..Len(run.batches) :
                  run.batches[b] = Cardinality(ChunkOf(run, b - 1))
            /\ (n = 7 /\ run.finished) => run.batches = <<5, 2>>

C3_Witness ==
    \E run \in Range(runs) :
        /\ Len(run.jobs) = 7
        /\ run.batches = <<5, 2>>
        /\ run.js[6].requests > 0
        /\ run.js[7].phase = "wait"

(* C4: for a run of N jobs the progress callback is invoked exactly N       *)
(* times, and its K-th invocation does not come before every job of chunk   *)
(* floor((K-1)/5) has settled.                                              *)
C4_ProgressCalls ==
    \A run \in KnownRuns :
        /\ \A K \in 1..run.calls :
              \A m \in ChunkOf(run, (K - 1) \div 5) : run.js[m].phase = "done"
        /\ run.calls <= Len(run.jobs)
        /\ run.finished => run.calls = Len(run.jobs)
        /\ ~run.finished => progress.completed = run.calls

C4_Witness ==
    /\ \E run \in Range(returned) : Len(run.jobs) = 7 /\ run.calls = 7
    /\ runs = <<>>

(* C5: whatever the outcomes of the jobs, the run attempts all N jobs and   *)
(* returns N records, one per job and in the order of the jobs, each with   *)
(* the outcome of its own job: a failed job neither stops nor changes the   *)
(* others, in its chunk or in a later one.                                  *)
C5_FailureIsolation ==
    \A run \in KnownRuns :
        run.finished =>
            /\ Len(run.allResolvedPairs) = Len(run.jobs)
            /\ \A k \in 1..Len(run.jobs) :
                  LET job == run.js[k]
                      res == run.allResolvedPairs[k]
                  IN  /\ job.phase = "done"
                      /\ job.hist # <<>>
                      /\ res.id = run.jobs[k].pair.id
                      /\ res.sourceId = run.jobs[k].pair.sourceId
                      /\ Status(res) \in {"succeeded", "failed"}
                      /\ Status(res) = "succeeded" <=> ~Failed(job.hist[Len(job.hist)])
                      /\ Status(res) = "failed" <=> Exhausted(job)

C5_Witness ==
    \E run \in Range(returned) :
        /\ Len(run.jobs) = 7
        /\ Status(run.allResolvedPairs[1]) = "succeeded"
        /\ Status(run.allResolvedPairs[2]) = "failed"
        /\ Status(run.allResolvedPairs[3]) = "succeeded"
        /\ Status(run.allResolvedPairs[7]) = "succeeded"

-----------------------------------------------------------------------------
(* The claims about enhanceImageWithRetry, checked under SpecRetry *)

\* the message mentions s, whatever the case of its letters
ContainsIgnoringCase(msg, s) ==
    \E d \in 0..(Len(msg) - Len(s)) :
        \A k \in 1..Len(s) : toLowerCaseChar(msg[d + k]) = toLowerCaseChar(s[k])

MentionsRateLimit(o) ==
    /\ o.isError
    /\ \/ ContainsIgnoringCase(o.message, <<"4", "2", "9">>)
       \/ ContainsIgnoringCase(o.message, <<"q", "u", "o", "t", "a">>)
       \/ ContainsIgnoringCase(o.message,
                               <<"r", "a", "t", "e", " ", "l", "i", "m", "i", "t">>)

\* the third attempt of a returned job got an image payload from the endpoint
ThirdReturnedImage(job) ==
    /\ job.phase = "done"
    /\ Len(job.hist) = 3
    /\ job.hist[3].kind \in {"image", "convertFail"}

(* C6, as claimed: a job whose first two attempts raise and whose third     *)
(* attempt returns an image payload returns a succeeded record after        *)
(* exactly three requests, having waited 1000 ms and then 2000 ms.          *)
C6_AsClaimed ==
    \A job \in KnownJobs :
        ThirdReturnedImage(job) =>
            /\ Status(job.result[1]) = "succeeded"
            /\ job.requests = 3
            /\ job.waits = <<1000, 2000>>

(* C6, amended: a job whose first two attempts raise and whose third        *)
(* attempt returns an image payload that is re-encoded without error (when  *)
(* an output format is requested) returns a succeeded record after exactly  *)
(* three attempts, having waited 1000 ms and then 2000 ms; each attempt     *)
(* issues one request, except an attempt that failed while encoding the     *)
(* input, which issues none.                                                *)
C6_ThirdAttemptSucceeds ==
    \A job \in KnownJobs :
        (ThirdReturnedImage(job) /\ job.hist[3].kind = "image") =>
            /\ Status(job.result[1]) = "succeeded"
            /\ job.attempt = 3
            /\ job.requests =
                  3 - Cardinality({k \in 1..2 : job.hist[k].kind = "encodeFail"})
            /\ job.waits = <<1000, 2000>>

C6_Witness ==
    \E run \in Range(returned) :
        /\ run.outputFormat = "webp"
        /\ Len(run.js[1].hist) = 3
        /\ run.js[1].hist[1].kind = "reject"
        /\ run.js[1].hist[2].kind = "noImage"
        /\ run.js[1].hist[3].kind = "image"
        /\ run.js[1].requests = 3

(* C7: when the retries are exhausted and the last error's message contains *)
(* "429", or quota or rate limit in any letter case, the record is failed   *)
(* and carries the fixed rate-limit message.                                *)
C7_RateLimitMessage ==
    \A job \in KnownJobs :
        (Exhausted(job) /\ MentionsRateLimit(job.hist[3])) =>
            /\ Status(job.result[1]) = "failed"
            /\ job.result[1].error = Some(RATE_LIMIT_MESSAGE)

C7_Witness ==
    \E job \in KnownJobs :
        /\ Exhausted(job)
        /\ \A k \in 1..3 : job.hist[k].kind = "reject" /\ job.hist[k].message = MsgHttp429
        /\ job.result[1].error = Some(RATE_LIMIT_MESSAGE)

C9_NoImageIsRetried ==
    \A job \in KnownJobs :
        /\ \A k \in 1..Len(job.hist) :
              (job.hist[k].kind = "noImage" /\ k < 3) =>
                  /\ Len(job.waits) >= k
                  /\ job.phase = "wait" \/ job.attempt > k
                  /\ job.phase = "done" => Len(job.hist) > k
        /\ (job.phase = "done" /\ Status(job.result[1]) = "failed") =>
              (Len(job.hist) = 3 /\ \A k \in 1..3 : Failed(job.hist[k]))

C9_Witness ==
    \E job \in KnownJobs :
        /\ Exhausted(job)
        /\ \A k \in 1..3 : job.hist[k].kind = "noImage"
        /\ job.result[1].error = Some(NO_IMAGE_MESSAGE)

(* C10: a job makes at most three requests; after failed attempt k, k < 3,  *)
(* it waits exactly 1000 * 2^(k-1) ms, and after the third failed attempt   *)
(* it returns without a wait.                                               *)
C10_BackoffSchedule ==
    \A job \in KnownJobs :
        LET failures == Cardinality({k \in 1..Len(job.hist) : Failed(job.hist[k])})
        IN  /\ job.requests <= 3
            /\ job.attempt <= 3
            /\ Len(job.waits) = Min(failures, 2)
            /\ job.waits \in {<<>>, <<1000>>, <<1000, 2000>>}

C10_Witness ==
    \E job \in KnownJobs :
        /\ Exhausted(job)
        /\ job.requests = 3
        /\ job.waits = <<1000, 2000>>

-----------------------------------------------------------------------------
\* the attempts of a job that got as far as the request
RequestsIssued(job) ==
    Cardinality({k \in 1..Len(job.hist) : job.hist[k].kind # "encodeFail"})
    + (IF job.phase \in {"request", "convert"} THEN 1 ELSE 0)

\* the derived records of the session
DerivedPairs == {p \in Range(imagePairs) : p.id # p.sourceId}

(* C11, as claimed: whenever the response of an attempt carries an image    *)
(* payload, the job returns a succeeded record (not loading, no error, the  *)
(* image set, selected) and makes no further request.                       *)
C11_AsClaimed ==
    \A run \in KnownRuns :
        \A j \in 1..Len(run.jobs) :
            LET job == run.js[j]
            IN  \A k \in 1..Len(job.hist) :
                    job.hist[k].kind \in {"image", "convertFail"} =>
                        /\ k = Len(job.hist)
                        /\ job.phase = "done"
                        /\ Status(job.result[1]) = "succeeded"

(* C11, amended: whenever the response of an attempt carries an image       *)
(* payload and, when an output format is requested, the image is re-encoded *)
(* without error, the job returns its placeholder as a succeeded record     *)
(* (not loading, no error, the image set, selected) and makes no further    *)
(* request; after upload of one image and an Auto run whose first attempt   *)
(* succeeds, the session holds exactly one derived record, succeeded,       *)
(* selected and with the original's id as sourceId.                         *)
C11_ImageSucceeds ==
    \A run \in KnownRuns :
        /\ \A j \in 1..Len(run.jobs) :
              LET job == run.js[j]
                  pair == run.jobs[j].pair
              IN  /\ job.requests = RequestsIssued(job)
                  /\ \A k \in 1..Len(job.hist) :
                        job.hist[k].kind = "image" =>
                            /\ k = Len(job.hist)
                            /\ job.phase = "done"
                            /\ Status(job.result[1]) = "succeeded"
                            /\ job.result[1].enhanced # Null
                            /\ job.result[1].enhanced[1].of = pair.originalFile
                            /\ job.result[1] =
                                  [pair EXCEPT !.enhanced = job.result[1].enhanced,
                                               !.isLoading = FALSE,
                                               !.isSelected = TRUE]
                            /\ job.result[1].error = Null
        /\ (run.finished /\ run.mode = "auto" /\ Len(run.jobs) = 1
                /\ Len(run.js[1].hist) = 1 /\ run.js[1].hist[1].kind = "image") =>
              /\ Cardinality(DerivedPairs) = 1
              /\ \A p \in DerivedPairs :
                    /\ Status(p) = "succeeded"
                    /\ p.isSelected
                    /\ p.sourceId = imagePairs[1].id
                    /\ imagePairs[1].id = imagePairs[1].sourceId
              /\ Len(imagePairs) = 2

C11_Witness ==
    /\ \E run \in Range(returned) :
          /\ run.mode = "auto"
          /\ Len(run.js[1].hist) = 1
          /\ run.js[1].hist[1].kind = "image"
          /\ run.js[1].requests = 1
    /\ Len(imagePairs) = 2
    /\ Status(imagePairs[2]) = "succeeded"
    /\ imagePairs[2].isSelected

-----------------------------------------------------------------------------
(* C15: every run that starts completes in the end, when every pending call *)
(* and backoff wait settles: from a state with a run in flight, or with the *)
(* mode set, the session comes to a state with no run in flight, idle and   *)
(* with progress (0, 0), whatever the outcomes of the jobs.                 *)
C15_RunCompletes ==
    /\ (runs # <<>>) ~> (/\ runs = <<>>
                         /\ enhancingMode = "null"
                         /\ progress = [completed |-> 0, total |-> 0])
    /\ (enhancingMode # "null") ~> (/\ enhancingMode = "null"
                                    /\ progress = [completed |-> 0, total |-> 0])

C15_Witness ==
    /\ runs = <<>>
    /\ enhancingMode = "null"
    /\ progress = [completed |-> 0, total |-> 0]
    /\ \E run \in Range(returned) :
          /\ Len(run.jobs) = 2
          /\ Status(run.allResolvedPairs[1]) = "failed"
          /\ Status(run.allResolvedPairs[2]) = "succeeded"

-----------------------------------------------------------------------------
(* The claims about the triggers and the records of a run, checked under    *)
(* SpecCustom                                                               *)

\* the originals of the session without any derived record
Unprocessed ==
    {o \in Range(imagePairs) :
        /\ o.id = o.sourceId
        /\ ~\E q \in Range(imagePairs) : q.sourceId = o.id /\ q.id # o.id}

\* this step starts a run
RunStarts == started' = started + 1

\* the run a RunStarts step has started
NewRun == runs'[Len(runs')]

(* C12: an original that has a derived record (loading, succeeded or        *)
(* failed) is not counted by unenhancedCount and gets no job in a further   *)
(* Auto or Custom run; a trigger acts (the modal opens, a run starts) only  *)
(* from a state where the mode is null and some original has no derived     *)
(* record.                                                                  *)
C12_ProcessedOnce ==
    /\ [](unenhancedCount = Cardinality(Unprocessed))
    /\ [][/\ RunStarts =>
                /\ enhancingMode = "null"
                /\ Unprocessed # {}
                /\ \A j \in 1..Len(NewRun.jobs) :
                      \E o \in Unprocessed : NewRun.jobs[j].pair.sourceId = o.id
          /\ (isCustomModalOpen' /\ ~isCustomModalOpen) =>
                (enhancingMode = "null" /\ Unprocessed # {})]_vars

C12_Witness ==
    /\ Len(runs) = 1
    /\ runs[1].mode = "custom"
    /\ \A j \in 1..Len(runs[1].jobs) : runs[1].jobs[j].pair.sourceId = OriginalId(2)
    /\ \E p \in DerivedPairs : p.sourceId = OriginalId(1) /\ Status(p) = "failed"
    /\ \E p \in DerivedPairs : p.sourceId = OriginalId(1) /\ Status(p) = "succeeded"
    /\ unenhancedCount = 0

\* the jobs of a run for the original o and the view a
JobsFor(run, o, a) ==
    {j \in 1..Len(run.jobs) :
        run.jobs[j].pair.sourceId = o.id /\ run.jobs[j].angle = a}

(* C13: an Auto run has exactly one job per eligible original and a Custom  *)
(* run exactly one job per eligible original and selected angle, so the     *)
(* total of the run is the number of eligible originals, times the number   *)
(* of selected angles for Custom; a Custom trigger with no angle selected   *)
(* creates no job and no record and leaves the mode null.                   *)
C13_JobsOfARun ==
    [][/\ (RunStarts /\ enhancingMode' = "auto") =>
             /\ Len(NewRun.jobs) = Cardinality(Unprocessed)
             /\ progress'.total = Cardinality(Unprocessed)
             /\ \A o \in Unprocessed : Cardinality(JobsFor(NewRun, o, "auto")) = 1
       /\ (RunStarts /\ enhancingMode' = "custom") =>
             /\ Len(NewRun.jobs) =
                   Cardinality(Unprocessed) * Cardinality(customSettings.angles)
             /\ progress'.total = Len(NewRun.jobs)
             /\ \A o \in Unprocessed : \A a \in customSettings.angles :
                   Cardinality(JobsFor(NewRun, o, a)) = 1
       /\ RunStarts => enhancingMode' \in {"auto", "custom"}
       /\ (isCustomModalOpen /\ ~isCustomModalOpen' /\ customSettings.angles = {}) =>
             /\ ~RunStarts
             /\ runs' = runs
             /\ imagePairs' = imagePairs
             /\ enhancingMode' = "null"
             /\ progress' = progress]_vars

C13_Witness ==
    /\ enhancingMode = "custom"
    /\ progress = [completed |-> 0, total |-> 4]
    /\ Len(runs) = 1
    /\ Len(runs[1].jobs) = 4
    /\ customSettings.angles = {"front", "side"}
    /\ Cardinality(DerivedPairs) = 4

(* C14: when a run starts, the derived records of all its jobs are appended *)
(* to the session collection as loading records and progress is set to      *)
(* (0, total), and no job of the run has issued a request by then.          *)
C14_EagerPlaceholders ==
    [][RunStarts =>
          /\ imagePairs' = imagePairs \o [j \in 1..Len(NewRun.jobs) |-> NewRun.jobs[j].pair]
          /\ \A j \in 1..Len(NewRun.jobs) :
                /\ Status(NewRun.jobs[j].pair) = "loading"
                /\ NewRun.jobs[j].pair.id # NewRun.jobs[j].pair.sourceId
                /\ NewRun.js[j].requests = 0
                /\ NewRun.js[j].hist = <<>>
                /\ NewRun.js[j].phase \in {"pending", "encode"}
          /\ progress' = [completed |-> 0, total |-> Len(NewRun.jobs)]]_vars

C14_Witness ==
    /\ Len(runs) = 1
    /\ Len(runs[1].jobs) = 4
    /\ \A j \in 1..4 : runs[1].js[j].phase = "encode" /\ runs[1].js[j].requests = 0
    /\ \A j \in 1..4 : \E p \in Range(imagePairs) :
          p = runs[1].jobs[j].pair /\ Status(p) = "loading"
    /\ progress = [completed |-> 0, total |-> 4]

-----------------------------------------------------------------------------
(* The claims about the records of the session, checked under Spec *)

\* the positions of the originals that the sourceId of record k names
OriginalsOf(k) ==
    {m \in 1..Len(imagePairs) :
        /\ imagePairs[m].id = imagePairs[k].sourceId
        /\ imagePairs[m].id = imagePairs[m].sourceId}

(* C16: in every state of the session collection the sourceId of every      *)
(* record names exactly one original of the collection (a record whose id   *)
(* is its sourceId), possibly the record itself; no derived record is there *)
(* without its original, and no two records have the same id.               *)
C16_SourceResolves ==
    /\ \A k \in 1..Len(imagePairs) : Cardinality(OriginalsOf(k)) = 1
    /\ \A k, m \in 1..Len(imagePairs) : imagePairs[k].id = imagePairs[m].id => k = m

C16_Witness ==
    /\ \E run \in Range(returned) :
          \E j \in 1..Len(run.jobs) :
              /\ Status(run.allResolvedPairs[j]) = "succeeded"
              /\ ~\E p \in Range(imagePairs) : p.sourceId = run.jobs[j].pair.sourceId
    /\ DerivedPairs # {}
    /\ Len(imagePairs) = 2

\* the fields of a record that its status is read from
StatusMarks(p) ==
    (IF p.isLoading THEN 1 ELSE 0) + (IF p.enhanced # Null THEN 1 ELSE 0)
    + (IF p.error # Null THEN 1 ELSE 0)

(* C17: every derived record is in exactly one of the states loading,       *)
(* succeeded, failed (an error message only in a failed record, an image    *)
(* only in a succeeded one, never both); a record leaves loading only for   *)
(* succeeded or failed and keeps that status from then on.  Stated as the   *)
(* claim has it; a run left in flight by Clear Session can overwrite the    *)
(* settled record of a later run for the same id.                           *)
C17_StatusLifecycle ==
    /\ [](\A p \in DerivedPairs : StatusMarks(p) = 1)
    /\ [][\A p \in DerivedPairs :
              \A q \in {x \in Range(imagePairs') : x.id = p.id} :
                  Status(p) # "loading" => Status(q) = Status(p)]_vars

-----------------------------------------------------------------------------
\* the file of upload number n, as handleFileChange stores it in the original
UploadedFile(n) == OriginalPair(n).originalFile

(* C18: the raw image of every derived record is the raw image of the       *)
(* original its sourceId names; every job, for the front view and for every *)
(* other angle, takes the uploaded file as its input, so that every image   *)
(* it gets is generated from the upload and never from a generated result.  *)
C18_InputIsOriginal ==
    /\ \A p \in DerivedPairs :
          /\ \E o \in Range(imagePairs) : o.id = p.sourceId /\ o.id = o.sourceId
          /\ \A o \in Range(imagePairs) :
                o.id = p.sourceId => p.originalFile = o.originalFile
          /\ p.enhanced # Null => p.enhanced[1].of = p.originalFile
    /\ \A run \in KnownRuns :
          \A j \in 1..Len(run.jobs) :
              LET pair == run.jobs[j].pair
                  job == run.js[j]
              IN  /\ pair.originalFile = UploadedFile(pair.sourceId.src)
                  /\ job.url # Null => job.url[1].of = UploadedFile(pair.sourceId.src)
                  /\ (job.result # Null /\ job.result[1].enhanced # Null) =>
                        job.result[1].enhanced[1].of = UploadedFile(pair.sourceId.src)

C18_Witness ==
    \E p, q \in DerivedPairs :
        /\ p.sourceId = q.sourceId
        /\ p.id.res = "front" /\ Status(p) = "succeeded"
        /\ q.id.res = "side" /\ Status(q) = "succeeded"
        /\ q.enhanced[1].of = UploadedFile(q.sourceId.src)
        /\ q.sourceId.src = 2

-----------------------------------------------------------------------------
\* this step deletes from the session collection the records of the set gone,
\* all of them and no other, and leaves the liked set as it is
DeletesExactly(gone) ==
    /\ Range(imagePairs') = Range(imagePairs) \ gone
    /\ Len(imagePairs') = Len(imagePairs) - Cardinality(gone)
    /\ \A k, m \in 1..Len(imagePairs') :
          k < m => \E a, b \in 1..Len(imagePairs) :
                      a < b /\ imagePairs[a] = imagePairs'[k] /\ imagePairs[b] = imagePairs'[m]
    /\ likedImages' = likedImages

(* C19: the removal of a source group deletes the records whose sourceId is *)
(* the id of the group, the original and every derived record, and no       *)
(* other; the removal of one record deletes that record alone; each leaves  *)
(* the other records, their order and the liked set unchanged.              *)
C19_RemovalFrame ==
    [][\A p \in Range(imagePairs) :
          /\ handleRemoveGroup(p.id) =>
                DeletesExactly({q \in Range(imagePairs) : q.sourceId = p.id})
          /\ handleRemoveImage(p.id) => DeletesExactly({p})]_vars

C19_Witness ==
    /\ \E l \in Range(likedImages) :
          /\ l.sourceId = OriginalId(1)
          /\ ~\E p \in Range(imagePairs) : p.sourceId = l.sourceId
    /\ \E p \in DerivedPairs : p.sourceId = OriginalId(2)
    /\ Len(imagePairs) = 2
    /\ uploads = 2
    /\ runs = <<>>
    /\ started = 1

-----------------------------------------------------------------------------
\* the ids of the liked set
LikedIds(liked) == {liked[k].id : k \in 1..Len(liked)}

(* C20: the liked set, which starts without duplicates, holds at most one   *)
(* entry per record id after any sequence of toggles; a toggle of a record  *)
(* whose id is not in the set adds exactly one entry for it, and a toggle   *)
(* of a record whose id is in the set removes that entry, so that a like    *)
(* followed by an unlike gives back the previous membership.                *)
C20_LikeToggles ==
    /\ [](\A k, m \in 1..Len(likedImages) :
              likedImages[k].id = likedImages[m].id => k = m)
    /\ [][\A p \in Range(imagePairs) \cup Range(likedImages) :
              handleToggleLike(p) =>
                  IF p.id \notin LikedIds(likedImages)
                  THEN /\ Len(likedImages') = Len(likedImages) + 1
                       /\ SubSeq(likedImages', 1, Len(likedImages)) = likedImages
                       /\ likedImages'[Len(likedImages')].id = p.id
                       /\ LikedIds(likedImages') = LikedIds(likedImages) \cup {p.id}
                  ELSE /\ Len(likedImages') = Len(likedImages) - 1
                       /\ Range(likedImages') \subseteq Range(likedImages)
                       /\ LikedIds(likedImages') = LikedIds(likedImages) \ {p.id}]_vars

C20_Witness ==
    /\ Len(likedImages) = 2
    /\ likedImages[1].sourceId = OriginalId(2)
    /\ likedImages[2].sourceId = OriginalId(1)
    /\ \A k \in 1..2 : ~likedImages[k].isSelected
    /\ \E p \in DerivedPairs : p.id = likedImages[1].id /\ p.isSelected

-----------------------------------------------------------------------------
(* C30: enhanceImageWithRetry always settles with a record, whatever the    *)
(* answers (a failure while encoding the input, a rejected request, a       *)
(* response without an image, an image, a failed conversion): the call      *)
(* returns in the end, after at most three requests, and the record it      *)
(* returns has the id and sourceId of the record it was given and is not    *)
(* loading.                                                                 *)
C30_AlwaysSettles ==
    /\ [](\A run \in KnownRuns :
            \A j \in 1..Len(run.jobs) :
                LET job == run.js[j]
                    pair == run.jobs[j].pair
                IN  /\ job.requests <= 3
                    /\ job.attempt <= 3
                    /\ job.phase = "done" <=> job.result # Null
                    /\ job.phase = "done" =>
                          /\ job.result[1].id = pair.id
                          /\ job.result[1].sourceId = pair.sourceId
                          /\ ~job.result[1].isLoading
                          /\ job.result[1].originalFile = pair.originalFile)
    /\ (runs # <<>>) ~> (\E run \in Range(returned) :
                            \A j \in 1..Len(run.jobs) : run.js[j].phase = "done")

C30_Witness ==
    \E run \in Range(returned) :
        /\ run.js[1].phase = "done"
        /\ Len(run.js[1].hist) = 3
        /\ run.js[1].hist[1].kind = "encodeFail"
        /\ run.js[1].hist[2].kind = "convertFail"
        /\ run.js[1].hist[3].kind = "noImage"
        /\ ~run.js[1].result[1].isLoading

-----------------------------------------------------------------------------
\* this step is the return of a run
RunReturns == Len(runs') < Len(runs)

(* C22: a run changes the session collection at two points only: when its  *)
(* loading placeholders are appended, and once when all its batches have    *)
(* settled, by replacing records with the results of the same id; the       *)
(* settlement of a job or of a batch in between changes no record, so that  *)
(* the records of a run in flight all show as loading.                      *)
C22_TwoWritePoints ==
    /\ [][(runs' # runs) =>
            IF RunStarts
            THEN imagePairs' =
                    imagePairs \o [j \in 1..Len(NewRun.jobs) |-> NewRun.jobs[j].pair]
            ELSE IF RunReturns
            THEN /\ Len(imagePairs') = Len(imagePairs)
                 /\ \A k \in 1..Len(imagePairs) :
                       \/ imagePairs'[k] = imagePairs[k]
                       \/ /\ imagePairs'[k].id = imagePairs[k].id
                          /\ imagePairs'[k] \in Range(returned'[1].allResolvedPairs)
            ELSE imagePairs' = imagePairs]_vars
    /\ [](\A run \in Range(runs) :
            \A j \in 1..Len(run.jobs) :
                \A p \in Range(imagePairs) :
                    p.id = run.jobs[j].pair.id => Status(p) = "loading")

C22_Witness ==
    \E run \in Range(runs) :
        /\ Len(run.jobs) = 7
        /\ run.i = 5
        /\ Len(run.allResolvedPairs) = 5
        /\ Status(run.allResolvedPairs[1]) = "succeeded"
        /\ Status(run.allResolvedPairs[2]) = "failed"
        /\ \A p \in DerivedPairs : Status(p) = "loading"
        /\ run.js[6].phase = "request"

-----------------------------------------------------------------------------
(* The claims about the liked set, checked under SpecGallery *)

\* the liked entries kept by a step are the same records at the same places
KeepsLiked(n) == \A k \in 1..n : likedImages'[k] = likedImages[k]

(* C21: a liked entry is a snapshot taken at like-time with isSelected reset *)
(* to false: a like appends the session record as it is then, unselected,   *)
(* and leaves the other entries alone; every step that changes the session  *)
(* collection (a selection toggle, the removal of a record or of a group,   *)
(* the merge of a run) leaves the liked set unchanged; a step that changes  *)
(* the liked set (like, unlike, selection of a liked entry) leaves the      *)
(* session collection unchanged.                                            *)
C21_LikedSnapshot ==
    [][/\ (imagePairs' # imagePairs) => likedImages' = likedImages
       /\ (likedImages' # likedImages) => imagePairs' = imagePairs
       /\ (Len(likedImages') > Len(likedImages)) =>
             /\ Len(likedImages') = Len(likedImages) + 1
             /\ KeepsLiked(Len(likedImages))
             /\ \E p \in Range(imagePairs) :
                   /\ p.enhanced # Null
                   /\ likedImages'[Len(likedImages')] = [p EXCEPT !.isSelected = FALSE]]_vars

\* one liked entry whose session record was deselected after the like, and
\* one, selected in the liked gallery, whose session record was removed
C21_Witness ==
    /\ Len(likedImages) = 2
    /\ \E l \in Range(likedImages) : \E p \in Range(imagePairs) :
          p.id = l.id /\ ~p.isSelected /\ ~l.isSelected /\ l.enhanced = p.enhanced
    /\ \E l \in Range(likedImages) :
          l.isSelected /\ ~\E p \in Range(imagePairs) : p.sourceId = l.sourceId


-----------------------------------------------------------------------------
(* The claims about the prompts, checked under SpecPrompt *)

\* the sentences of a prompt that ask to change the material
TransformClauses(prompt) == {c \in Range(prompt) : c.kind = "transformMaterialTo"}

\* the sentences that ask for another camera position
PerspectiveClauses(prompt) == {c \in Range(prompt) : c.kind \in {"rerenderFrom", "closeUpOf"}}

\* the sentences that forbid inventing details
NoInventionClauses(prompt) == {c \in Range(prompt) : c.kind = "doNotInvent"}

\* the sentences about material, background and lighting
MaterialClauses(prompt) ==
    {c \in Range(prompt) : c.kind \in {"transformMaterialTo", "preserveMaterialAsSeen"}}
BackgroundClauses(prompt) == {c \in Range(prompt) : c.kind = "placeOn"}
LightingClauses(prompt) == {c \in Range(prompt) : c.kind = "light"}

(* C24: whatever the background, the lighting and the angle, the prompt of  *)
(* a job of a Custom run has a material-transform clause naming the chosen  *)
(* material when the material is gold, silver or platinum; when it is auto, *)
(* it has no material-transform clause and has the preserve-as-seen clause. *)
C24_MaterialClause ==
    [][(RunStarts /\ NewRun.mode = "custom") =>
          \A j \in 1..Len(NewRun.jobs) :
              LET prompt == NewRun.jobs[j].prompt
                  material == customSettings.material
              IN  IF material = "auto"
                  THEN /\ TransformClauses(prompt) = {}
                       /\ Clause("preserveMaterialAsSeen", "") \in Range(prompt)
                  ELSE /\ material \in {"gold", "silver", "platinum"}
                       /\ TransformClauses(prompt) = {Clause("transformMaterialTo", material)}
                       /\ Clause("preserveMaterialAsSeen", "") \notin Range(prompt)]_vars

\* a run of all six angles with platinum on a gradient under shadowed light
C24_Witness ==
    /\ customSettings.material = "platinum"
    /\ customSettings.background = "gradient"
    /\ customSettings.lighting = "shadowed"
    /\ \E run \in Range(runs) :
          /\ run.mode = "custom"
          /\ Len(run.jobs) = 6
          /\ \A j \in 1..6 :
                Clause("transformMaterialTo", "platinum") \in Range(run.jobs[j].prompt)

(* C25: for every style configuration the prompt of a job of a non-front    *)
(* angle has a perspective clause for that angle and a clause that forbids  *)
(* inventing details, besides one material, one background and one lighting *)
(* clause, the same as in the front prompt; the front prompt has no         *)
(* perspective clause and no such prohibition; with one eligible image,     *)
(* the angles front and side and the background marble, the run has exactly *)
(* two jobs and their prompts differ.                                       *)
C25_PerspectiveClause ==
    [][(RunStarts /\ NewRun.mode = "custom") =>
          /\ \A j \in 1..Len(NewRun.jobs) :
                LET prompt == NewRun.jobs[j].prompt
                    angle == NewRun.jobs[j].angle
                    front == finalPrompt(customSettings, "front")
                IN  /\ Cardinality(MaterialClauses(prompt)) = 1
                    /\ BackgroundClauses(prompt) =
                          {backgroundInstruction(customSettings.background)}
                    /\ LightingClauses(prompt) =
                          {lightingInstruction(customSettings.lighting)}
                    /\ Range(front) \subseteq Range(prompt)
                    /\ IF angle = "front"
                       THEN /\ PerspectiveClauses(prompt) = {}
                            /\ NoInventionClauses(prompt) = {}
                            /\ prompt = front
                       ELSE /\ angle \in {"side", "top", "threeQuarter", "closeUp", "back"}
                            /\ Cardinality(PerspectiveClauses(prompt)) = 1
                            /\ NoInventionClauses(prompt) # {}
                            /\ prompt # front
          /\ \A j, k \in 1..Len(NewRun.jobs) :
                (NewRun.jobs[j].angle # NewRun.jobs[k].angle) =>
                    PerspectiveClauses(NewRun.jobs[j].prompt)
                        # PerspectiveClauses(NewRun.jobs[k].prompt)
          /\ (/\ Cardinality(Unprocessed) = 1
              /\ customSettings.angles = {"front", "side"}
              /\ customSettings.background = "marble") =>
                /\ Len(NewRun.jobs) = 2
                /\ NewRun.jobs[1].prompt # NewRun.jobs[2].prompt]_vars

\* the run of the front and the side view on marble
C25_Witness ==
    /\ customSettings.angles = {"front", "side"}
    /\ customSettings.background = "marble"
    /\ \E run \in Range(runs) :
          /\ run.mode = "custom"
          /\ Len(run.jobs) = 2
          /\ run.jobs[1].angle = "front" /\ run.jobs[2].angle = "side"
          /\ run.jobs[1].prompt # run.jobs[2].prompt
          /\ NoInventionClauses(run.jobs[2].prompt) # {}


-----------------------------------------------------------------------------
(* The claims about getOrnamentType, checked under SpecOrnament *)

\* the attempt raised an error
Raised(kind) == kind \in {"encodeFail", "reject", "noText"}

(* C23, as claimed: the returned string is "Jewelry" or consists of letters *)
(* and spaces only and has 3 to 24 characters.                              *)
C23_AsClaimed ==
    ornamentCall.phase = "done" =>
        LET result == ornamentCall.result[1]
        IN  \/ result = JEWELRY
            \/ /\ Len(result) \in 3..24
               /\ \A k \in 1..Len(result) : result[k] \in Letters \/ result[k] = " "

(* C23, amended: getOrnamentType returns either the response text, trimmed  *)
(* and then stripped of every character that is neither a letter nor a      *)
(* whitespace character (so a line break or a tab inside the text stays),   *)
(* when that has 3 to 24 characters, or "Jewelry".  A response with a text  *)
(* that fails the length criterion yields "Jewelry" with no further         *)
(* request; each raised error before the third is followed by a wait, of    *)
(* 1000 ms and then of 2000 ms, and a new attempt; after three raised       *)
(* errors the result is "Jewelry"; at most three requests are made.         *)
C23_OrnamentType ==
    /\ [](/\ ornamentCall.requests <= 3
          /\ ornamentCall.attempt <= 3
          /\ ornamentCall.phase = "done" <=> ornamentCall.result # Null
          /\ \A k \in 1..Len(ornamentCall.waits) :
                ornamentCall.waits[k] = 1000 * Pow2(k - 1)
          /\ \A k \in 1..Len(ornamentCall.hist) :
                (k < Len(ornamentCall.hist) \/ ornamentCall.phase # "done")
                    => Raised(ornamentCall.hist[k])
          /\ ornamentCall.phase \in {"encode", "request"} =>
                /\ Len(ornamentCall.hist) = ornamentCall.attempt - 1
                /\ Len(ornamentCall.waits) = ornamentCall.attempt - 1
          /\ ornamentCall.phase = "wait" =>
                /\ ornamentCall.attempt < 3
                /\ Len(ornamentCall.hist) = ornamentCall.attempt
                /\ Len(ornamentCall.waits) = ornamentCall.attempt
          /\ ornamentCall.phase = "done" =>
                LET result == ornamentCall.result[1]
                    n == Len(ornamentCall.hist)
                IN  /\ Len(ornamentCall.waits) = n - 1
                    /\ IF Raised(ornamentCall.hist[n])
                       THEN n = 3 /\ result = JEWELRY /\ ornamentCall.waits = <<1000, 2000>>
                       ELSE LET text == ornamentCall.answer[1]
                                kept == SelectSeq(trim(text),
                                            LAMBDA c : c \in Letters \/ c \in Whitespace)
                            IN  /\ result = IF Len(kept) \in 3..24 THEN kept ELSE JEWELRY
                                /\ \A k \in 1..Len(result) :
                                      result[k] \in Letters \/ result[k] \in Whitespace
                                /\ Len(result) \in 3..24)
    /\ [][(ornamentCall.phase = "request" /\ ornamentCall'.answer # Null) =>
              /\ ornamentCall'.phase = "done"
              /\ ornamentCall'.requests = ornamentCall.requests]_vars
    /\ [][(ornamentCall'.phase = "wait" /\ ornamentCall.phase # "wait") =>
              /\ ornamentCall.attempt < 3
              /\ ornamentCall'.waits =
                    Append(ornamentCall.waits, 1000 * Pow2(ornamentCall.attempt - 1))]_vars

\* a call that returned a two-line text at its third attempt, after an error
\* of the encoding and a rejected request
C23_Witness ==
    /\ ornamentCall.phase = "done"
    /\ ornamentCall.hist = <<"encodeFail", "reject", "text">>
    /\ ornamentCall.requests = 2
    /\ ornamentCall.waits = <<1000, 2000>>
    /\ ornamentCall.answer = Some(TextTwoLines)
    /\ ornamentCall.result = Some(TextTwoLines)


-----------------------------------------------------------------------------
(* The claims about the persisted liked set, checked under SpecPersist *)

\* no effect and no update of the liked set is pending
NoEffectPending == boot.phase \notin {"mounted", "loaded"}

(* C26: whenever no effect is pending, the persisted text is the liked set  *)
(* in memory, written in full; the item is read once, at startup.  Stated   *)
(* as the claim has it; the write of line 76 can throw, and then the liked  *)
(* set in memory has an entry that the item has not.                        *)
C26_PersistedIsLiked ==
    /\ boot.reads <= 1
    /\ NoEffectPending => storage = saved(likedImages)

(* C27: when the item cannot be parsed at startup, the effects of the mount *)
(* leave the liked set empty, set no toast and only log the failure; App is *)
(* ready at once, with the item rewritten as the empty set; afterwards a    *)
(* like appends the record, unselected, an unlike deletes the entry of that *)
(* id, and each write that succeeds leaves the item equal to the liked set. *)
C27_UnparsableBlob ==
    /\ [][(boot.phase = "mounted" /\ storage = Some(Unparsable)) =>
              /\ likedImages' = <<>>
              /\ toastMessage' = ""
              /\ showClearConfirmModal' = FALSE
              /\ boot' = [phase |-> "ready", queued |-> Null, reads |-> 1, logged |-> TRUE]
              /\ storage' = saved(<<>>)]_vars
    /\ [](boot.logged => boot.phase \in {"ready", "crashed"} /\ boot.reads = 1)
    /\ [][(boot.logged /\ likedImages' # likedImages /\ ~showClearConfirmModal) =>
              /\ \/ /\ Len(likedImages') = Len(likedImages) + 1
                    /\ KeepsLiked(Len(likedImages))
                    /\ \E p \in Range(imagePairs) :
                          /\ ~\E l \in Range(likedImages) : l.id = p.id
                          /\ likedImages'[Len(likedImages')] = [p EXCEPT !.isSelected = FALSE]
                 \/ \E l \in Range(likedImages) :
                          likedImages' = SelectSeq(likedImages, LAMBDA q : q.id # l.id)
                 \/ /\ Len(likedImages') = Len(likedImages)
                    /\ \E k \in 1..Len(likedImages) :
                          /\ likedImages'[k] = [likedImages[k] EXCEPT !.isSelected = ~@]
                          /\ \A m \in 1..Len(likedImages) :
                                m # k => likedImages'[m] = likedImages[m]
              /\ boot'.phase = "ready" => storage' = saved(likedImages')]_vars

\* after an unparsable item: two images liked, one of them unliked again
C27_Witness ==
    /\ boot.logged
    /\ Ready
    /\ Len(likedImages) = 1
    /\ likedImages[1].id = DerivedId(OriginalId(2), "auto")
    /\ storage = saved(likedImages)
    /\ \E p \in Range(imagePairs) : p.id = DerivedId(OriginalId(1), "auto") /\ p.enhanced # Null


-----------------------------------------------------------------------------
(* The claims about the bulk export, checked under SpecExport *)

\* the archive of the given records: file k is named stem-k with the
\* extension of record k's encoding and holds record k's image
IsArchiveOf(files, stem, pairs) ==
    LET chosen == SelectSeq(pairs, LAMBDA p : p.isSelected /\ p.enhanced # Null)
    IN  /\ Len(files) = Len(chosen)
        /\ \A k \in 1..Len(chosen) :
              LET mime == chosen[k].enhanced[1].mime
              IN  /\ files[k].data = chosen[k].enhanced[1]
                  /\ files[k].name.stem = stem
                  /\ files[k].name.index = k
                  /\ files[k].name.ext = IF mime \in {"png", "webp"} THEN mime ELSE "jpg"

(* C28, as claimed: no second export starts while one is in progress.      *)
C28_AsClaimed == ~(zips.session # Null /\ zips.liked # Null)

(* C28, amended: an export packages exactly the records of its collection   *)
(* that are selected and have a result image, named 1..n in collection      *)
(* order with extension png or webp for those encodings and jpg otherwise;  *)
(* when the archive is done it is handed over, when it fails one toast is    *)
(* set; either way the session collection and the liked set are unchanged   *)
(* and the flag of that export is reset; no second export of the same       *)
(* collection starts while one is in progress (the export of the session    *)
(* and the export of the liked set have a flag each and may overlap).       *)
C28_BulkExport ==
    /\ [](/\ isDownloading <=> zips.session # Null
          /\ isDownloadingLiked <=> zips.liked # Null)
    /\ [][(zips'.session # zips.session /\ zips'.session # Null) =>
              /\ ~isDownloading /\ isDownloading'
              /\ zips'.session[1] # <<>>
              /\ IsArchiveOf(zips'.session[1], "enhanced-jewelry", imagePairs)
              /\ UNCHANGED <<imagePairs, likedImages, toastMessage, downloads>>]_vars
    /\ [][(zips'.liked # zips.liked /\ zips'.liked # Null) =>
              /\ ~isDownloadingLiked /\ isDownloadingLiked'
              /\ zips'.liked[1] # <<>>
              /\ IsArchiveOf(zips'.liked[1], "liked-jewelry", likedImages)
              /\ UNCHANGED <<imagePairs, likedImages, toastMessage, downloads>>]_vars
    /\ [][(zips.session # Null /\ zips'.session = Null) =>
              /\ ~isDownloading'
              /\ UNCHANGED <<imagePairs, likedImages, isDownloadingLiked>>
              /\ \/ /\ downloads' = Append(downloads, [download |-> "enhanced-jewelry.zip",
                                                        files |-> zips.session[1]])
                    /\ toastMessage' = toastMessage
                 \/ /\ downloads' = downloads
                    /\ toastMessage' = "Failed to download images."]_vars
    /\ [][(zips.liked # Null /\ zips'.liked = Null) =>
              /\ ~isDownloadingLiked'
              /\ UNCHANGED <<imagePairs, likedImages, isDownloading>>
              /\ \/ /\ downloads' = Append(downloads, [download |-> "liked-jewelry.zip",
                                                        files |-> zips.liked[1]])
                    /\ toastMessage' = toastMessage
                 \/ /\ downloads' = downloads
                    /\ toastMessage' = "Failed to download liked images."]_vars

\* an archive of a webp and a gif image was delivered (the second record is
\* named 2 and gets jpg), and a later export of the session has failed
C28_Witness ==
    /\ Len(downloads) = 1
    /\ Len(downloads[1].files) = 2
    /\ downloads[1].files[1].name = [stem |-> "enhanced-jewelry", index |-> 1, ext |-> "webp"]
    /\ downloads[1].files[2].name = [stem |-> "enhanced-jewelry", index |-> 2, ext |-> "jpg"]
    /\ downloads[1].files[2].data.mime = "gif"
    /\ toastMessage = "Failed to download images."
    /\ ~isDownloading
    /\ zips.session = Null


-----------------------------------------------------------------------------
(* The claims about the camera, checked under SpecCamera *)

\* this step hands a further constraint to getUserMedia
StreamRequested == Len(cameraCall'.requested) = Len(cameraCall.requested) + 1

(* C29: openCamera asks for a stream with the constraints rear-facing, then *)
(* front-facing, then any, in that order; a request is made only as the     *)
(* first one or after the request before it has failed, so the call stops   *)
(* at the first success; the camera is marked open only by a step in which  *)
(* a request succeeds, with the stream of that request; when all three      *)
(* requests have failed the toast is the category of the third error.       *)
C29_CameraFallback ==
    /\ [](/\ Len(cameraCall.requested) <= 3
          /\ cameraCall.requested = SubSeq(<<"environment", "user", "any">>, 1,
                                            Len(cameraCall.requested))
          /\ cameraCall.phase = "request" =>
                Len(cameraCall.errors) = Len(cameraCall.requested) - 1
          /\ Len(cameraCall.errors) <= Len(cameraCall.requested))
    /\ [][(cameraCall' # cameraCall /\ cameraCall.phase = "request") =>
              IF StreamRequested
              THEN /\ Len(cameraCall'.errors) = Len(cameraCall.errors) + 1
                   /\ cameraCall'.phase = "request"
                   /\ UNCHANGED <<isCameraOpen, streamRef, toastMessage>>
              ELSE /\ cameraCall'.phase = "done"
                   /\ cameraCall'.requested = cameraCall.requested
                   /\ \/ /\ cameraCall'.errors = cameraCall.errors
                         /\ isCameraOpen'
                         /\ streamRef' =
                               Some([constraint |->
                                        cameraCall.requested[Len(cameraCall.requested)],
                                     live |-> TRUE])
                         /\ UNCHANGED toastMessage
                      \/ /\ Len(cameraCall'.errors) = 3
                         /\ Len(cameraCall.requested) = 3
                         /\ toastMessage' = CameraToast(cameraCall'.errors[3])
                         /\ UNCHANGED <<isCameraOpen, streamRef>>]_vars
    /\ [][(~isCameraOpen /\ isCameraOpen') =>
              /\ cameraCall.phase = "request"
              /\ cameraCall'.phase = "done"
              /\ cameraCall'.errors = cameraCall.errors]_vars

\* the rear and the front camera were refused for different reasons and the
\* third request failed with yet another error: its category is shown
C29_Witness ==
    /\ cameraCall.phase = "done"
    /\ cameraCall.requested = <<"environment", "user", "any">>
    /\ cameraCall.errors = <<CameraError("OverconstrainedError"),
                             CameraError("NotFoundError"),
                             CameraError("NotAllowedError")>>
    /\ toastMessage = "Camera access denied. Please enable it in browser settings."
    /\ ~isCameraOpen



-----------------------------------------------------------------------------
(* C31: the merge at the return of a run replaces only the records whose id *)
(* is the id of a resolved result, each by a result of that id, and adds no *)
(* record: the collection keeps its length and its ids in order, so a       *)
(* record removed while the run was in flight stays absent, and every       *)
(* record of another id, an original uploaded during the run included, is   *)
(* left as it was.                                                          *)
C31_MergeFrame ==
    [][RunReturns =>
        LET resolved == returned'[1].allResolvedPairs
            ids == {resolved[m].id : m \in 1..Len(resolved)}
        IN  /\ Len(imagePairs') = Len(imagePairs)
            /\ \A k \in 1..Len(imagePairs) :
                  /\ imagePairs'[k].id = imagePairs[k].id
                  /\ imagePairs[k].id \notin ids => imagePairs'[k] = imagePairs[k]
                  /\ imagePairs[k].id \in ids =>
                        /\ imagePairs'[k] \in Range(resolved)
                        /\ ~imagePairs'[k].isLoading
            /\ \A id \in ids :
                  (\A p \in Range(imagePairs) : p.id # id) =>
                      (\A p \in Range(imagePairs') : p.id # id)]_vars

\* a run has returned whose only result found no record to replace, beside
\* an original that was no source of the run
C31_Witness ==
    /\ runs = <<>>
    /\ \E run \in Range(returned) :
          /\ run.allResolvedPairs # <<>>
          /\ \A m \in 1..Len(run.allResolvedPairs) :
                \A p \in Range(imagePairs) : p.id # run.allResolvedPairs[m].id
          /\ \E p \in Range(imagePairs) :
                /\ p.sourceId = p.id
                /\ \A j \in 1..Len(run.jobs) : run.jobs[j].pair.sourceId # p.id
          /\ \E p \in Range(imagePairs) :
                \E j \in 1..Len(run.jobs) : run.jobs[j].pair.sourceId = p.id


-----------------------------------------------------------------------------
(* C32: in every state progress.completed <= progress.total, and whenever   *)
(* no run is shown in progress (enhancingMode is null) progress is (0, 0),  *)
(* under every interleaving of the user's actions with the progress         *)
(* callbacks of a run.                                                      *)
C32_ProgressBounds ==
    /\ progress.completed <= progress.total
    /\ enhancingMode = "null" => progress = [completed |-> 0, total |-> 0]

\* the same while the session has not been cleared during a run
C32_ProgressBoundsUncleared ==
    (\A run \in Range(runs) :
        \A j \in 1..Len(run.jobs) :
            \E p \in Range(imagePairs) : p.id = run.jobs[j].pair.id)
    => C32_ProgressBounds

\* a run of two batches whose first batch has been counted
C32_Counted ==
    /\ progress.total > BATCH_SIZE
    /\ progress.completed = BATCH_SIZE


-----------------------------------------------------------------------------
\* a derived record of the n-th upload shows as loading
LoadingOf(n) ==
    \E p \in Range(imagePairs) :
        p.sourceId = OriginalId(n) /\ p.id # p.sourceId /\ p.isLoading

\* every loading record has a run in flight with a job of its id
LoadingHasRun ==
    \A p \in Range(imagePairs) :
        p.isLoading => \E run \in Range(runs) : \E j \in 1..Len(run.jobs) :
                          run.jobs[j].pair.id = p.id

(* C33: when every endpoint call and every backoff wait settles, a derived  *)
(* record that shows as loading eventually stops loading or is removed,     *)
(* whatever the user uploads, removes or clears while the run is in flight; *)
(* a loading record always has a run in flight with a job of its id.        *)
C33_LoadingEnds ==
    /\ \A n \in 1..MaxUploads : LoadingOf(n) ~> ~LoadingOf(n)
    /\ []LoadingHasRun

\* the run started after Clear Session has returned and its record has left
\* loading, while the run that was cleared away is still in flight
C33_Witness ==
    /\ Len(runs) = 1
    /\ \A p \in Range(imagePairs) : p.sourceId # runs[1].jobs[1].pair.sourceId
    /\ \E run \in Range(returned) :
          \E p \in Range(imagePairs) :
              /\ p.id = run.jobs[1].pair.id
              /\ ~p.isLoading


-----------------------------------------------------------------------------
\* this step removes the last derived record of an original that stays
RemovesLastResultOf(o) ==
    /\ o \in Range(imagePairs')
    /\ o.id = o.sourceId
    /\ o.id \in sourceIdsWithResults(imagePairs)
    /\ o.id \notin sourceIdsWithResults(imagePairs')
    /\ \E p \in Range(imagePairs) :
          /\ p.sourceId = o.id
          /\ p.id # o.id
          /\ imagePairs' = SelectSeq(imagePairs, LAMBDA q : q.id # p.id)

(* C34: eligibility looks at the current collection only.  When the last    *)
(* derived record of an original is removed by itself, the original is      *)
(* eligible again at once (it is counted by unenhancedCount), whether or    *)
(* not a run is in flight; a run that starts makes one record per eligible  *)
(* original, with the id the earlier record had (source id and the suffix   *)
(* of an Auto run); and the session never holds two records of one id.      *)
C34_EligibleAgain ==
    /\ [](\A k1, k2 \in 1..Len(imagePairs) :
            imagePairs[k1].id = imagePairs[k2].id => k1 = k2)
    /\ [][\A o \in Range(imagePairs') :
            RemovesLastResultOf(o) =>
                /\ o \in Range(sourcePairsToProcess(imagePairs'))
                /\ unenhancedCount' = unenhancedCount + 1]_vars
    /\ [][RunStarts =>
            /\ Len(NewRun.jobs) = unenhancedCount
            /\ \A j \in 1..Len(NewRun.jobs) :
                  /\ NewRun.jobs[j].pair.sourceId = sourcePairsToProcess(imagePairs)[j].id
                  /\ NewRun.jobs[j].pair.id =
                        DerivedId(NewRun.jobs[j].pair.sourceId, "auto")]_vars

\* a run in flight has a job of the id an earlier run had: the record of the
\* earlier run was removed and the later run has made it again
C34_Witness ==
    /\ Len(runs) = 1
    /\ \E run \in Range(returned) :
          /\ run.jobs[1].pair.id = runs[1].jobs[1].pair.id
          /\ run.js[1].phase = "done"
    /\ \E p \in Range(imagePairs) :
          p.id = runs[1].jobs[1].pair.id /\ p.isLoading


-----------------------------------------------------------------------------
(* C35: a rejection of convertImageFormat is handled as a failed attempt.   *)
(* After attempt 1 or 2 the call does not return: it waits 1000 ms or       *)
(* 2000 ms, and when the timer fires it starts the next attempt, which      *)
(* encodes the file and sends a new request.  After attempt 3 the call      *)
(* returns a failed record: not loading, no image (although the response    *)
(* carried one), the error text classified from the rejection's message.    *)
C35_ConvertFailure ==
    /\ [](\A run \in KnownRuns : \A j \in 1..Len(run.jobs) :
            LET job == run.js[j]
            IN  \A k \in 1..Len(job.hist) :
                    job.hist[k].kind = "convertFail" =>
                        IF k < MAX_RETRIES
                        THEN /\ Len(job.waits) >= k
                             /\ job.waits[k] = BackoffDelay(k)
                             /\ Len(job.hist) = k =>
                                   /\ job.result = Null
                                   /\ job.phase \in {"wait", "encode", "request", "convert"}
                                   /\ job.phase = "wait" <=> job.attempt = k
                                   /\ job.phase # "wait" => job.attempt = k + 1
                        ELSE /\ job.phase = "done"
                             /\ Len(job.waits) = MAX_RETRIES - 1
                             /\ ~job.result[1].isLoading
                             /\ job.result[1].enhanced = Null
                             /\ job.result[1].error =
                                   Some(ClassifyError(ErrorOf(job.hist[k].message)))
                             /\ run \in Range(returned) =>
                                   \A p \in Range(imagePairs) :
                                       p.id = run.jobs[j].pair.id => Status(p) = "failed")
    /\ [][\A r \in 1..Len(runs) : \A j \in 1..Len(runs[r].jobs) :
            LET job == runs[r].js[j]
            IN  (/\ Len(runs') = Len(runs)
                 /\ runs'[r].js[j] # job
                 /\ job.phase \in {"wait", "encode"}
                 /\ job.hist # <<>>
                 /\ job.hist[Len(job.hist)].kind = "convertFail") =>
                    LET job1 == runs'[r].js[j]
                    IN  CASE job.phase = "wait" ->
                                /\ job1.phase = "encode"
                                /\ job1.attempt = job.attempt + 1
                                /\ job1.requests = job.requests
                          [] job.phase = "encode" ->
                                \/ /\ job1.phase = "request"
                                   /\ job1.requests = job.requests + 1
                                \/ /\ Len(job1.hist) = Len(job.hist) + 1
                                   /\ job1.hist[Len(job1.hist)].kind = "encodeFail"]_vars

\* the conversion failed in each of the three attempts of a call, each of
\* which had sent a request, and the run has returned the failed record
C35_Witness ==
    \E run \in Range(returned) :
        /\ run.outputFormat # "undefined"
        /\ Len(run.js[1].hist) = MAX_RETRIES
        /\ \A k \in 1..MAX_RETRIES : run.js[1].hist[k].kind = "convertFail"
        /\ run.js[1].requests = MAX_RETRIES
        /\ run.js[1].waits = <<1000, 2000>>
        /\ \E p \in Range(imagePairs) :
              p.id = run.jobs[1].pair.id /\ Status(p) = "failed" /\ p.enhanced = Null

=============================================================================
